---- MODULE Spec2Model ----
(***************************************************************************)
(* Model of the financial-insights chat app:                               *)
(*   src/app.py    process_company_documents (the orchestrator), main,     *)
(*                 download_files_from_s3, query_gemini                    *)
(*   src/utils.py  QuartrAPI.get_company_events, TranscriptProcessor,      *)
(*                 SupabaseStorageHandler                                  *)
(*                                                                         *)
(* Representation of Python values                                         *)
(*   str        a sequence of code points (Integers): "a." is <<97, 46>>   *)
(*   None       NoneT, where a str is expected                             *)
(*   a URL      the sequence of its '/'-separated segments (strings);      *)
(*              None, a missing key and '' are all <<>> (all are falsy     *)
(*              and the code only tests URLs for truth)                    *)
(*   a dict     a record holding every key the code reads, a missing key   *)
(*              being the value Absent (str) or <<>> (URL)                 *)
(* An exception is a value of the step that raises it: the operators that  *)
(* model functions return a record with a field `raised`.                  *)
(*                                                                         *)
(* Specifications                                                          *)
(*   Spec       a run of process_company_documents on up to MaxEvents      *)
(*              events, up to MaxFaults of them not regular                *)
(*   SpecOrder  a run on NumOrderEvents regular events in every order      *)
(*   SpecT      process_transcript called on its own                       *)
(*   SpecF      format_transcript_text called on its own, on every text of *)
(*              up to MaxLen characters                                    *)
(*   SpecP      create_pdf called on its own                               *)
(*   SpecS      uploads and downloads of SupabaseStorageHandler over an    *)
(*              in-memory store                                            *)
(*   SpecC      runs of main (app.py 298-425): the sidebar and the chat,   *)
(*              up to MaxTurns questions in a history                      *)
(*   SpecTie    process_company_documents on NumTieEvents regular events,  *)
(*              several of them of the same date                           *)
(*   SpecK      a run of process_company_documents and a call of           *)
(*              query_gemini, each with or without its API key             *)
(* utils.S3Handler (imported at app.py 9) is not in src/utils.py: the key  *)
(* is made by create_filename of utils.py, the upload answers True, False  *)
(* or raises.                                                              *)
(***************************************************************************)
EXTENDS Integers, Sequences, FiniteSets, TLC

\* ------------------------------------------------------------------ bounds

\* longest event list the provider returns in Spec
MaxEvents == 3

\* how many events of a list of Spec differ from a regular event
MaxFaults == 1

\* number of events of the provider's list in SpecOrder
NumOrderEvents == 5

\* the events of an order run that have a transcript
NumOrderTranscripts == 3

\* the longest text format_transcript_text is called with on its own
MaxLen == 3

\* the questions asked before the chat history is full
MaxTurns == 2

\* the events and the dates of the runs of SpecTie
NumTieEvents == 4

NumTieDays == 2

\* ------------------------------------------------------- program constants

\* "if transcript_count < 2", "report_count < 2", "slides_count < 2"
MaxPerKind == 2

\* response.status == 200
HTTP_OK == 200

\* ------------------------------------------------------------ Python values

NoneT == <<-1>>
Absent == <<-2>>

\* code points
CH_NL == 10
CH_SP == 32
CH_DOT == 46
CH_T == 84
CH_BSL == 92
CH_a == 97
CH_n == 110

\* the test left out: any text passes
TruthyAlways(v) ==
    v = v

\* bool(v) of a str or None
Truthy(v) ==
    v # NoneT /\ v # Absent /\ v # <<>>

IsStr(v) ==
    v # NoneT /\ v # Absent

\* str.isspace() of one character, for the characters modelled
IsSpace(c) ==
    c \in {CH_SP, CH_NL, 9, 13}

\* s starts with the characters of p
StartsWith(s, p) ==
    Len(s) >= Len(p) /\ SubSeq(s, 1, Len(p)) = p

\* s1 < s2 of two str: code point order, a proper prefix first
RECURSIVE StrLess(_, _)
StrLess(s, t) ==
    IF t = <<>> THEN FALSE
    ELSE IF s = <<>> THEN TRUE
    ELSE IF Head(s) # Head(t) THEN Head(s) < Head(t)
    ELSE StrLess(Tail(s), Tail(t))

\* ---------------------------------------------- format_transcript_text

\* text.replace('\\n', '\n'): the two characters backslash, n become a line feed
RECURSIVE ReplaceEscapedNewlines(_)
ReplaceEscapedNewlines(s) ==
    IF s = <<>> THEN <<>>
    ELSE IF Len(s) >= 2 /\ s[1] = CH_BSL /\ s[2] = CH_n
         THEN <<CH_NL>> \o ReplaceEscapedNewlines(SubSeq(s, 3, Len(s)))
         ELSE <<Head(s)>> \o ReplaceEscapedNewlines(Tail(s))

\* s.strip()
RECURSIVE LStrip(_)
LStrip(s) ==
    IF s # <<>> /\ IsSpace(Head(s)) THEN LStrip(Tail(s)) ELSE s

RECURSIVE RStrip(_)
RStrip(s) ==
    IF s # <<>> /\ IsSpace(s[Len(s)]) THEN RStrip(SubSeq(s, 1, Len(s) - 1)) ELSE s

Strip(s) ==
    LStrip(RStrip(s))

\* ' '.join(text.split()): whitespace runs become one space, none at the ends
RECURSIVE CollapseRun(_, _)
CollapseRun(s, pendingSpace) ==
    IF s = <<>> THEN <<>>
    ELSE IF IsSpace(Head(s)) THEN CollapseRun(Tail(s), TRUE)
    ELSE (IF pendingSpace THEN <<CH_SP>> ELSE <<>>) \o <<Head(s)>>
             \o CollapseRun(Tail(s), FALSE)

CollapseWhitespace(s) ==
    CollapseRun(Strip(s), FALSE)

\* s.split(sep) for a one-character separator: always at least one piece
RECURSIVE SplitOn(_, _, _)
SplitOn(s, sep, cur) ==
    IF s = <<>> THEN <<cur>>
    ELSE IF Head(s) = sep THEN <<cur>> \o SplitOn(Tail(s), sep, <<>>)
    ELSE SplitOn(Tail(s), sep, cur \o <<Head(s)>>)

\* [s.strip() for s in pieces if s.strip()]
RECURSIVE StripNonEmpty(_)
StripNonEmpty(pieces) ==
    IF pieces = <<>> THEN <<>>
    ELSE IF Strip(Head(pieces)) # <<>>
         THEN <<Strip(Head(pieces))>> \o StripNonEmpty(Tail(pieces))
         ELSE StripNonEmpty(Tail(pieces))

\* the sentences joined by a single line feed instead
RECURSIVE JoinSentencesOneLine(_)
JoinSentencesOneLine(sentences) ==
    IF sentences = <<>> THEN <<>>
    ELSE IF Len(sentences) = 1 THEN Head(sentences)
    ELSE Head(sentences) \o <<CH_DOT, CH_NL>> \o JoinSentencesOneLine(Tail(sentences))

\* '.\n\n'.join(sentences)
RECURSIVE JoinSentences(_)
JoinSentences(sentences) ==
    IF sentences = <<>> THEN <<>>
    ELSE IF Len(sentences) = 1 THEN Head(sentences)
    ELSE Head(sentences) \o <<CH_DOT, CH_NL, CH_NL>> \o JoinSentences(Tail(sentences))

\* TranscriptProcessor.format_transcript_text; a text that is no str raises
\* (None has no .replace)
format_transcript_text(text) ==
    IF ~IsStr(text) THEN [raised |-> TRUE, text |-> <<>>]
    ELSE [raised |-> FALSE,
          text |-> JoinSentences(StripNonEmpty(SplitOn(
                       CollapseWhitespace(ReplaceEscapedNewlines(text)), CH_DOT, <<>>)))
                   \o <<CH_DOT>>]

\* -------------------------------------------------------------------- URLs

AbsentU == <<"<absent>">>

\* bool(u) of a URL value: None, '' and a missing key are falsy
TruthyU(u) ==
    u # <<>> /\ u # AbsentU

\* the document ids of the provider's app URLs: str.isdigit() holds of these
DigitSegments == {"101", "102", "103", "104", "105", "106", "107"}

IsDigit(seg) ==
    seg \in DigitSegments

\* 'host' in url
HostIn(host, url) ==
    \E i \in 1..Len(url) : url[i] = host

\* f"https://api.quartr.com/public/v1/transcripts/document/{document_id}"
ApiDocumentUrl(document_id) ==
    <<"https:", "", "api.quartr.com", "public", "v1", "transcripts", "document", document_id>>

\* --------------------------------------------------- HTTP responses (aiohttp)

\* A response: exc (session.get raised), status, ctype ("json" for a
\* Content-Type of application/json) and the body:
\*   kind  "obj" (a JSON object), "array", "number" (a non-zero JSON number),
\*         "invalid" (no JSON), "empty" (nothing but whitespace)
\*   tKind the 'transcript' key of the object: "absent", "null" or "dict";
\*   tText its 'text' key; text: the object's 'text' key; raw: the body as text
EmptyBody == [kind |-> "empty", tKind |-> "absent", tText |-> Absent, text |-> Absent, raw |-> <<>>]

\* await response.json(): ContentTypeError unless the content type is JSON, then
\* None for a blank body, json.JSONDecodeError for a body that is no JSON
ResponseJson(resp) ==
    IF resp.ctype # "json" THEN [raised |-> "ContentTypeError", data |-> EmptyBody]
    ELSE IF resp.body.kind = "invalid" THEN [raised |-> "JSONDecodeError", data |-> EmptyBody]
    ELSE [raised |-> "no", data |-> resp.body]

\* key in data, for data the value response.json() gave: TypeError for None and
\* for a number, False for a list of other things
KeyInRaises(data) ==
    data.kind \in {"empty", "number"}

\* bool(data)
TruthyData(data) ==
    CASE data.kind = "empty" -> FALSE
      [] data.kind = "obj" -> data.tKind # "absent" \/ data.text # Absent
      [] OTHER -> TRUE

\* ------------------------------------------------------- process_transcript

Returned(text, fetched) ==
    [raised |-> FALSE, text |-> text, fetched |-> fetched]

\* utils.py 409-416: the raw transcript URL of the transcripts object
\* (url <<>> is Python's None)
ResolveRawUrl(transcripts) ==
    IF transcripts.isNone THEN [raised |-> TRUE, url |-> <<>>]
    ELSE IF TruthyU(transcripts.transcriptUrl)
         THEN [raised |-> FALSE, url |-> transcripts.transcriptUrl]
    ELSE IF transcripts.liveTranscripts = "null" THEN [raised |-> TRUE, url |-> <<>>]
    ELSE IF transcripts.liveTranscripts = "dict" /\ TruthyU(transcripts.nestedFinished)
         THEN [raised |-> FALSE, url |-> transcripts.nestedFinished]
    ELSE [raised |-> FALSE, url |-> <<>>]

\* transcript_data['transcript'].get('text', ''), formatted when truthy:
\* [raised, done (a return was executed), text]
TranscriptTextOf(data) ==
    IF data.tKind # "dict" THEN [raised |-> TRUE, done |-> FALSE, text |-> <<>>]
    ELSE LET text == IF data.tText = Absent THEN <<>> ELSE data.tText
         IN  IF text = NoneT \/ text = <<>>
             THEN [raised |-> FALSE, done |-> FALSE, text |-> <<>>]
             ELSE [raised |-> FALSE, done |-> TRUE, text |-> format_transcript_text(text).text]

\* utils.py 419-434: the app URL converted to the API URL and fetched
\* [raised, done, text, url (raw_transcript_url afterwards), fetched]
TryAppUrl(transcript_url, net) ==
    LET none == [raised |-> FALSE, done |-> FALSE, text |-> <<>>, url |-> <<>>, fetched |-> <<>>]
    IN
    IF ~(TruthyU(transcript_url) /\ HostIn("app.quartr.com", transcript_url)) THEN none
    ELSE IF Len(transcript_url) < 2 THEN [none EXCEPT !.raised = TRUE]
    ELSE LET document_id == transcript_url[Len(transcript_url) - 1]
             api == ApiDocumentUrl(document_id)
             resp == net[api]
             got == [none EXCEPT !.url = api, !.fetched = <<api>>]
         IN  IF ~IsDigit(document_id) THEN none
             ELSE IF resp.exc THEN [got EXCEPT !.raised = TRUE]
             ELSE IF resp.status # HTTP_OK THEN got
             ELSE LET js == ResponseJson(resp)
                  IN  IF js.raised # "no" THEN [got EXCEPT !.raised = TRUE]
                      ELSE IF ~TruthyData(js.data) THEN got
                      ELSE IF KeyInRaises(js.data) THEN [got EXCEPT !.raised = TRUE]
                      ELSE IF js.data.kind # "obj" \/ js.data.tKind = "absent" THEN got
                      ELSE LET t == TranscriptTextOf(js.data)
                           IN  [got EXCEPT !.raised = t.raised, !.done = t.done, !.text = t.text]

\* utils.py 440-468: the raw URL fetched and parsed; an exception inside is
\* caught at 467 and falls to the final return ''
\* [done, text]
FetchRaw(raw_transcript_url, net) ==
    LET resp == net[raw_transcript_url]
        nothing == [done |-> FALSE, text |-> <<>>]
    IN
    IF resp.exc THEN nothing
    ELSE IF resp.status # HTTP_OK THEN nothing
    ELSE LET js == ResponseJson(resp)
         IN  IF js.raised = "JSONDecodeError"
             THEN \* except json.JSONDecodeError: text = await response.text()
                  IF resp.body.raw # <<>>
                  THEN [done |-> TRUE, text |-> format_transcript_text(resp.body.raw).text]
                  ELSE nothing
             ELSE IF js.raised # "no" THEN nothing
             ELSE IF KeyInRaises(js.data) THEN nothing
             ELSE IF js.data.kind # "obj" THEN nothing
             ELSE IF js.data.tKind # "absent"
                  THEN LET t == TranscriptTextOf(js.data)
                       IN  IF t.raised THEN nothing ELSE [done |-> t.done, text |-> t.text]
             ELSE IF js.data.text # Absent
                  THEN LET f == format_transcript_text(js.data.text)
                       IN  IF f.raised THEN nothing ELSE [done |-> TRUE, text |-> f.text]
             ELSE nothing

\* the handler left out: the exception reaches the caller
TranscriptReraise(fetched) ==
    [raised |-> TRUE, text |-> NoneT, fetched |-> fetched]

\* what the outermost handler of process_transcript does with an exception
\* raised in its body (utils.py 472-474): log it and return ''
TranscriptOuterExcept(fetched) ==
    Returned(<<>>, fetched)

\* TranscriptProcessor.process_transcript (utils.py 406-474):
\* [raised, text, fetched (the URLs requested, in order)]
process_transcript(transcript_url, transcripts, net) ==
    LET r == ResolveRawUrl(transcripts)
    IN
    IF r.raised THEN TranscriptOuterExcept(<<>>)
    ELSE LET a == IF TruthyU(r.url)
                  THEN [raised |-> FALSE, done |-> FALSE, text |-> <<>>, url |-> r.url,
                        fetched |-> <<>>]
                  ELSE TryAppUrl(transcript_url, net)
         IN  IF a.raised THEN TranscriptOuterExcept(a.fetched)
             ELSE IF a.done THEN Returned(a.text, a.fetched)
             ELSE IF ~TruthyU(a.url) THEN Returned(<<>>, a.fetched)
             ELSE LET f == FetchRaw(a.url, net)
                  IN  Returned(IF f.done THEN f.text ELSE <<>>, a.fetched \o <<a.url>>)

\* ------------------------------------------------------------- create_pdf

\* the characters of the markup and their entities: '&amp;', '&lt;', '&gt;'
CH_AMP == 38
CH_LT == 60
CH_GT == 62

AmpEntity == <<38, 97, 109, 112, 59>>
LtEntity == <<38, 108, 116, 59>>
GtEntity == <<38, 103, 116, 59>>

\* s.replace(ch, by) for a single character ch
RECURSIVE ReplaceWith(_, _, _)
ReplaceWith(s, ch, by) ==
    IF s = <<>> THEN <<>>
    ELSE (IF Head(s) = ch THEN by ELSE <<Head(s)>>) \o ReplaceWith(Tail(s), ch, by)

\* .replace('&', '&amp;').replace('<', '&lt;').replace('>', '&gt;')
EscapeMarkup(s) ==
    ReplaceWith(ReplaceWith(ReplaceWith(s, CH_AMP, AmpEntity), CH_LT, LtEntity), CH_GT, GtEntity)

\* f"{value}" of a str or None ('None')
FormatValue(v) ==
    IF IsStr(v) THEN v ELSE <<78, 111, 110, 101>>

\* transcript_text.split('\n\n')
RECURSIVE SplitBlankLines(_, _)
SplitBlankLines(s, cur) ==
    IF s = <<>> THEN <<cur>>
    ELSE IF Len(s) >= 2 /\ s[1] = CH_NL /\ s[2] = CH_NL
         THEN <<cur>> \o SplitBlankLines(SubSeq(s, 3, Len(s)), <<>>)
         ELSE SplitBlankLines(Tail(s), cur \o <<Head(s)>>)

\* utils.py 543-546: clean_para for every para with para.strip()
RECURSIVE CleanParagraphs(_)
CleanParagraphs(paragraphs) ==
    IF paragraphs = <<>> THEN <<>>
    ELSE IF Strip(Head(paragraphs)) # <<>>
         THEN <<EscapeMarkup(Strip(Head(paragraphs)))>> \o CleanParagraphs(Tail(paragraphs))
         ELSE CleanParagraphs(Tail(paragraphs))

\* no title block: create_pdf left before header_text was made
NoHeader ==
    [company_name |-> <<>>, event_title |-> <<>>, event_date |-> <<>>]

\* TranscriptProcessor.create_pdf (utils.py 491-561). render is what reportlab
\* does with the story: "ok", "header_fail" (Paragraph(header_text) raises, outside
\* any handler), "para_fail" (the first body Paragraph raises: caught at 550, the
\* paragraph is left out) or "build_fail" (doc.build raises: caught at 559).
\* [raised, empty (the bytes returned are b'')]
create_pdf(company_name, event_title, event_date, transcript_text, render) ==
    IF ~Truthy(transcript_text) THEN [raised |-> FALSE, empty |-> TRUE]
    ELSE IF ~IsStr(company_name) \/ ~IsStr(event_title) THEN [raised |-> TRUE, empty |-> TRUE]
    ELSE IF render = "header_fail" THEN [raised |-> TRUE, empty |-> TRUE]
    ELSE IF render = "build_fail" THEN [raised |-> FALSE, empty |-> TRUE]
    ELSE [raised |-> FALSE, empty |-> FALSE]

\* utils.py 528-551: what create_pdf has put together when it is left:
\* [header (the strings put into header_text for the three arguments), story
\* (the body paragraphs built)]
StoryOf(company_name, event_title, event_date, transcript_text, render) ==
    IF ~Truthy(transcript_text) \/ ~IsStr(company_name) \/ ~IsStr(event_title)
    THEN [header |-> NoHeader, story |-> <<>>]
    ELSE LET header == [company_name |-> EscapeMarkup(company_name),
                        event_title |-> EscapeMarkup(event_title),
                        event_date |-> FormatValue(event_date)]
             clean == CleanParagraphs(SplitBlankLines(transcript_text, <<>>))
         IN  IF render = "header_fail" THEN [header |-> header, story |-> <<>>]
             ELSE IF render = "para_fail" /\ clean # <<>>
             THEN [header |-> header, story |-> Tail(clean)]
             ELSE [header |-> header, story |-> clean]

\* --------------------------------------------------------- create_filename

\* str.lower() on ASCII
Lower(s) ==
    [i \in 1..Len(s) |-> IF s[i] >= 65 /\ s[i] <= 90 THEN s[i] + 32 ELSE s[i]]

\* s.replace(a, b) for single characters
ReplaceChar(s, a, b) ==
    [i \in 1..Len(s) |-> IF s[i] = a THEN b ELSE s[i]]

\* s.replace(a, '') for a single character
RECURSIVE RemoveChar(_, _)
RemoveChar(s, a) ==
    IF s = <<>> THEN <<>>
    ELSE IF Head(s) = a THEN RemoveChar(Tail(s), a)
    ELSE <<Head(s)>> \o RemoveChar(Tail(s), a)

\* the last index of character c in s, 0 when there is none
LastIndexOf(s, c) ==
    LET hits == {i \in 1..Len(s) : s[i] = c}
    IN  IF hits = {} THEN 0 ELSE CHOOSE i \in hits : \A j \in hits : j <= i

\* os.path.splitext(p)[1]: from the last dot of the last path component, unless
\* only dots precede it there
SplitExt(p) ==
    LET sep == LastIndexOf(p, 47)
        dot == LastIndexOf(p, CH_DOT)
    IN  IF dot > sep /\ \E i \in (sep + 1)..(dot - 1) : p[i] # CH_DOT
        THEN SubSeq(p, dot, Len(p))
        ELSE <<>>

\* SupabaseStorageHandler.create_filename (utils.py 100-115); a company name or
\* title that is None raises (None has no .lower)
create_filename(company_name, event_date, event_title, doc_type, original_filename) ==
    IF ~IsStr(company_name) \/ ~IsStr(event_date) \/ ~IsStr(event_title)
    THEN [raised |-> TRUE, filename |-> <<>>]
    ELSE LET safe_company == ReplaceChar(ReplaceChar(Lower(company_name), CH_SP, 95), 45, 95)
             safe_date == RemoveChar(event_date, 45)
             safe_title == SubSeq(ReplaceChar(Lower(event_title), CH_SP, 95), 1, 30)
             ext0 == SplitExt(original_filename)
             ext == IF ext0 = <<>> THEN <<46, 112, 100, 102>> ELSE ext0
         IN  [raised |-> FALSE,
              filename |-> safe_company \o <<47>> \o doc_type \o <<47>> \o safe_company
                           \o <<95>> \o safe_date \o <<95>> \o doc_type \o ext]

\* the str of a document kind
KindStr(kind) ==
    CASE kind = "transcript" -> <<116, 114, 97, 110, 115, 99, 114, 105, 112, 116>>
      [] kind = "report" -> <<114, 101, 112, 111, 114, 116>>
      [] kind = "slides" -> <<115, 108, 105, 100, 101, 115>>

\* 'transcript.pdf' (app.py 137)
TranscriptPdfName == <<116, 114, 97, 110, 115, 99, 114, 105, 112, 116, 46, 112, 100, 102>>

\* 'Unknown Company' (app.py 98)
UnknownCompany == <<85, 110, 107, 110, 111, 119, 110, 32, 67, 111, 109, 112, 97, 110, 121>>

\* the display name of the company whose events are acquired: "Acme"
DisplayName == <<65, 99, 109, 101>>

\* company_data.get('displayName', 'Unknown Company') (app.py 98): the dict
\* get_company_events returns has the key 'events' and no other (utils.py
\* 349-351), so the default is taken
DisplayNameOf(data) ==
    UnknownCompany

\* 'Unknown Event' (app.py 116)
UnknownEvent == <<85, 110, 107, 110, 111, 119, 110, 32, 69, 118, 101, 110, 116>>

\* S3_BUCKET_NAME (app.py 55)
S3_BUCKET_NAME == <<97, 108, 112, 105, 110, 101, 105, 110, 115, 105, 103, 104, 116, 115>>

\* f"s3://{S3_BUCKET_NAME}/{filename}" (app.py 150)
S3Url(filename) ==
    <<115, 51, 58, 47, 47>> \o S3_BUCKET_NAME \o <<47>> \o filename

\* ------------------------------------------------------------------ events

PosSeg(pos) ==
    <<"101", "102", "103", "104", "105", "106", "107">>[pos]

AppUrl(pos) ==
    <<"https:", "", "app.quartr.com", "events", PosSeg(pos), "transcript">>

WebUrl(pos) ==
    <<"https:", "", "quartr.com", "events", PosSeg(pos), "transcript">>

RawUrl(pos) ==
    <<"https:", "", "files.quartr.com", "raw", PosSeg(pos)>>

LiveUrl(pos) ==
    <<"https:", "", "files.quartr.com", "live", PosSeg(pos)>>

ReportUrl(pos) ==
    <<"https:", "", "files.quartr.com", PosSeg(pos), "report.pdf">>

PdfUrl(pos) ==
    <<"https:", "", "files.quartr.com", PosSeg(pos), "slides">>

\* the characters of the last segments of the document URLs
Chars(seg) ==
    CASE seg = "report.pdf" -> <<114, 101, 112, 111, 114, 116, 46, 112, 100, 102>>
      [] seg = "slides" -> <<115, 108, 105, 100, 101, 115>>
      [] OTHER -> <<>>

\* "2024-dd" + "T9": the ISO date of day d
DateStr(d) ==
    <<50, 48, 50, 52, 45, 48 + (d \div 10), 48 + (d % 10), CH_T, 57>>

\* the title of event id: "Q" and a digit
TitleStr(id) ==
    <<81, 48 + id>>

\* responses
Response(status, ctype, body) ==
    [exc |-> FALSE, status |-> status, ctype |-> ctype, body |-> body]

TransportError ==
    [exc |-> TRUE, status |-> 0, ctype |-> "none", body |-> EmptyBody]

\* a JSON object with the keys given: tKind and tText for 'transcript', text for 'text'
JsonObject(tKind, tText, text) ==
    [kind |-> "obj", tKind |-> tKind, tText |-> tText, text |-> text, raw |-> <<>>]

\* a body that is no JSON
PlainBody(raw) ==
    [kind |-> "invalid", tKind |-> "absent", tText |-> Absent, text |-> Absent, raw |-> raw]

\* "a a. a": a transcript of two sentences
SomeText == <<CH_a, CH_SP, CH_a, CH_DOT, CH_SP, CH_a>>

\* {} as a transcripts object; event.get(key, {}) of a missing key
EmptyMeta ==
    [isNone |-> FALSE, transcriptUrl |-> AbsentU, finishedLiveTranscriptUrl |-> AbsentU,
     liveTranscripts |-> "absent", nestedFinished |-> AbsentU]

NoneMeta ==
    [EmptyMeta EXCEPT !.isNone = TRUE]

\* not transcripts: None and the empty dict
MetaFalsy(m) ==
    m.isNone \/ (m.transcriptUrl = AbsentU /\ m.finishedLiveTranscriptUrl = AbsentU
                 /\ m.liveTranscripts = "absent")

\* An event of the provider's list is held as a record of small values, and
\* Dict(e) is the dict the provider sent for it with what the network and the
\* object store answer for its documents:
\*   pos     its place in the provider's list (its identity)
\*   date    "day" (eventDate is the ISO date of e.day), "null" or "absent"
\*   title   "str", "null" or "absent"
\*   turl    transcriptUrl: "none", "app" (on app.quartr.com) or "web"
\*   meta    where the raw transcript URL is: "embedded" (transcripts has
\*           transcriptUrl), "nested_live" (transcripts has liveTranscripts with
\*           finishedLiveTranscriptUrl), "event_live" (transcripts is empty, the
\*           event's liveTranscripts has finishedLiveTranscriptUrl), "null_live"
\*           (transcripts is empty, liveTranscripts is null) or "empty"
\*   tAns    the answer to the transcript request (TranscriptAnswer)
\*   render  what reportlab does with the transcript (see create_pdf)
\*   rUrl, sUrl   the event has a reportUrl, a pdfUrl
\*   rAns, sAns   the answer to the report and to the slides request
\*   tUp, rUp, sUp   the answer of the object store: "ok" (True), "false" or "raise"

\* the answers to a transcript request
TranscriptAnswer(tAns) ==
    CASE tAns = "ok" -> Response(HTTP_OK, "json", JsonObject("dict", SomeText, Absent))
      [] tAns = "500" -> Response(500, "json", EmptyBody)
      [] tAns = "exc" -> TransportError
      [] tAns = "empty_ttext" -> Response(HTTP_OK, "json", JsonObject("dict", <<>>, Absent))
      [] tAns = "no_text" -> Response(HTTP_OK, "json", JsonObject("dict", Absent, Absent))
      [] tAns = "empty_text" -> Response(HTTP_OK, "json", JsonObject("absent", Absent, <<>>))
      [] tAns = "top_text" -> Response(HTTP_OK, "json", JsonObject("absent", Absent, SomeText))
      [] tAns = "plain" -> Response(HTTP_OK, "json", PlainBody(SomeText))
      [] tAns = "blank" -> Response(HTTP_OK, "json", EmptyBody)

\* the answers to a report or slides request
FileAnswer(ans) ==
    CASE ans = "ok" -> Response(HTTP_OK, "pdf", EmptyBody)
      [] ans = "500" -> Response(500, "json", EmptyBody)
      [] ans = "exc" -> TransportError

Dict(e) ==
    [pos |-> e.pos,
     eventDate |-> CASE e.date = "day" -> DateStr(e.day)
                     [] e.date = "null" -> NoneT
                     [] e.date = "absent" -> Absent,
     eventTitle |-> CASE e.title = "str" -> TitleStr(e.pos)
                      [] e.title = "null" -> NoneT
                      [] e.title = "absent" -> Absent,
     transcriptUrl |-> CASE e.turl = "none" -> <<>>
                         [] e.turl = "app" -> AppUrl(e.pos)
                         [] e.turl = "web" -> WebUrl(e.pos),
     transcripts |-> CASE e.meta = "embedded" -> [EmptyMeta EXCEPT !.transcriptUrl = RawUrl(e.pos)]
                       [] e.meta = "nested_live" ->
                              [EmptyMeta EXCEPT !.liveTranscripts = "dict",
                                                !.nestedFinished = LiveUrl(e.pos)]
                       [] OTHER -> EmptyMeta,
     liveTranscripts |-> CASE e.meta = "event_live" ->
                                  [EmptyMeta EXCEPT !.finishedLiveTranscriptUrl = LiveUrl(e.pos)]
                           [] e.meta = "null_live" -> NoneMeta
                           [] OTHER -> EmptyMeta,
     tResp |-> TranscriptAnswer(e.tAns),
     render |-> e.render,
     tUpload |-> e.tUp,
     reportUrl |-> IF e.rUrl THEN ReportUrl(e.pos) ELSE <<>>,
     rResp |-> FileAnswer(e.rAns),
     rUpload |-> e.rUp,
     pdfUrl |-> IF e.sUrl THEN PdfUrl(e.pos) ELSE <<>>,
     sResp |-> FileAnswer(e.sAns),
     sUpload |-> e.sUp]

\* the network as one event sees it: the response to each URL
Net(e) ==
    [u \in {RawUrl(e.pos), LiveUrl(e.pos), ApiDocumentUrl(PosSeg(e.pos)),
            ReportUrl(e.pos), PdfUrl(e.pos)} |->
        IF u = ReportUrl(e.pos) THEN e.rResp
        ELSE IF u = PdfUrl(e.pos) THEN e.sResp
        ELSE e.tResp]

\* ------------------------------------------------------ get_company_events

\* The provider's answer to the events request: exc, status, ctype and
\* body: "list" (an object whose 'data' is the event list), "nodata" (an object
\* without 'data'), "null" ('data' is null), "array" (no object) or "invalid"
\* (no JSON); events: the list.

\* the handler left out: the exception reaches the caller
EventsReraise ==
    [raised |-> TRUE, empty |-> TRUE, eventsNone |-> FALSE, events |-> <<>>]

\* what get_company_events does with an exception (utils.py 357-359)
EventsExcept ==
    [raised |-> FALSE, empty |-> TRUE, eventsNone |-> FALSE, events |-> <<>>]

\* QuartrAPI.get_company_events (utils.py 326-359): the dict returned;
\* empty: it is {}; eventsNone: its 'events' is None
get_company_events(resp) ==
    IF resp.exc THEN EventsExcept
    ELSE IF resp.status # HTTP_OK
         THEN [raised |-> FALSE, empty |-> TRUE, eventsNone |-> FALSE, events |-> <<>>]
    ELSE IF resp.ctype # "json" \/ resp.body \in {"invalid", "array"} THEN EventsExcept
    ELSE [raised |-> FALSE, empty |-> FALSE, eventsNone |-> resp.body = "null",
          events |-> IF resp.body = "list" THEN resp.events ELSE <<>>]

\* company_data without its list of events, which the variable events holds:
\* events is company_data['events'] itself, sorted in place (app.py 99-102)
Shape(got) ==
    [raised |-> got.raised, empty |-> got.empty, eventsNone |-> got.eventsNone]

\* ------------------------------------------------------------ events.sort

\* x.get('eventDate', '')
SortKey(e) ==
    IF Dict(e).eventDate = Absent THEN <<>> ELSE Dict(e).eventDate

\* a sort that fails on the empty list as well
SortRaisesOnEmpty(evs) ==
    evs = <<>> \/ (Len(evs) >= 2 /\ \E i \in 1..Len(evs) : SortKey(evs[i]) = NoneT)

\* list.sort compares every key with another once there are two: None is not
\* comparable (TypeError)
SortRaises(evs) ==
    Len(evs) >= 2 /\ \E i \in 1..Len(evs) : SortKey(evs[i]) = NoneT

\* an element goes before the placed elements of the same key as well
GoesBeforeEqual(e, x) ==
    ~StrLess(SortKey(e), SortKey(x))

\* whether e goes before x, an element already placed: only when its key is greater
GoesBefore(e, x) ==
    StrLess(SortKey(x), SortKey(e))

RECURSIVE InsertDesc(_, _)
InsertDesc(e, s) ==
    IF s = <<>> THEN <<e>>
    ELSE IF GoesBefore(e, Head(s)) THEN <<e>> \o s
    ELSE <<Head(s)>> \o InsertDesc(e, Tail(s))

\* the sort left out: the provider's order is kept
SortKept(evs) ==
    evs

\* events.sort(key=..., reverse=True) (app.py 102): descending and stable
RECURSIVE SortDesc(_)
SortDesc(evs) ==
    IF evs = <<>> THEN <<>>
    ELSE InsertDesc(evs[Len(evs)], SortDesc(SubSeq(evs, 1, Len(evs) - 1)))

\* ------------------------------------------------------------ object store

\* S3Handler.upload_file as the orchestrator sees it: the answer of the store
\* [raised, success]
upload_file(answer) ==
    [raised |-> answer = "raise", success |-> answer = "ok"]

\* ------------------------------------- SupabaseStorageHandler (utils.py 38)

\* an object that is not in the bucket, a file that was not written
NoObject == Absent

\* response.status_code in (200, 201) only for 200
DirectUploadOkOnly200(status) ==
    status = 200

\* utils.py 203: response.status_code in (200, 201)
DirectUploadOk(status) ==
    status \in {200, 201}

\* SupabaseStorageHandler.upload_file (utils.py 117-215). env is what the
\* surroundings do: client ("ok", "raises": the upload through the storage
\* client), anonKey ("set", "empty": supabase_key after the secrets were read),
\* http ([exc, status]: the answer to requests.post).
\* [raised, success, attempts (the upload attempts made, in order), stored (the
\* store took the bytes)]
SupabaseStorageHandler_upload_file(self, file_data, filename, content_type, env) ==
    LET none == [raised |-> FALSE, success |-> FALSE, attempts |-> <<>>, stored |-> FALSE]
        direct == [none EXCEPT !.attempts = <<"client", "http">>]
    IN
    IF ~self.client THEN none
    ELSE IF env.client = "ok"
         THEN [none EXCEPT !.success = TRUE, !.attempts = <<"client">>, !.stored = TRUE]
    ELSE IF env.anonKey = "empty" THEN [none EXCEPT !.attempts = <<"client">>]
    ELSE IF env.http.exc THEN direct
    ELSE IF DirectUploadOk(env.http.status)
         THEN [direct EXCEPT !.success = TRUE, !.stored = TRUE]
    ELSE direct

\* utils.py 274 and 304: os.path.exists(local_path) and os.path.getsize(local_path) > 0
WrittenNotEmpty(content) ==
    content # NoObject /\ Len(content) > 0

\* SupabaseStorageHandler.download_file (utils.py 246-316). objects is the
\* content of the bucket; local_path.dir: the path has a directory part
\* (os.makedirs('') raises FileNotFoundError, outside any handler); env.client
\* ("ok", "raises"): the storage client, which raises for a missing object as
\* well; env.http ("ok": 200 with the object, or 404 without it; "error": 500;
\* "exc": requests.get raises).
\* [raised, success, attempts, written (the content of local_path afterwards)]
SupabaseStorageHandler_download_file(self, filename, local_path, objects, env) ==
    LET none == [raised |-> FALSE, success |-> FALSE, attempts |-> <<>>, written |-> NoObject]
        response == IF env.client = "ok" THEN objects[filename] ELSE NoObject
        first == [none EXCEPT !.attempts = <<"client">>, !.written = response]
        second == [first EXCEPT !.attempts = <<"client", "http">>]
    IN
    IF ~self.client THEN none
    ELSE IF ~local_path.dir THEN [none EXCEPT !.raised = TRUE]
    ELSE IF WrittenNotEmpty(response) THEN [first EXCEPT !.success = TRUE]
    ELSE IF env.http # "ok" \/ objects[filename] = NoObject THEN second
    ELSE LET chunks == objects[filename]
         IN  IF WrittenNotEmpty(chunks)
             THEN [second EXCEPT !.success = TRUE, !.written = chunks]
             ELSE [second EXCEPT !.written = chunks]

\* ------------------------------------------------------------------- state

VARIABLES
    provider,          \* the provider's answer to the events request (input)
    apiKey,            \* QUARTR_API_KEY is set (input)
    pc,                \* where process_company_documents is
    session,           \* the aiohttp.ClientSession: "none", "open", "closed"
    company_data,      \* what get_company_events returned (see Shape)
    company_name,
    events,            \* company_data['events']: the event list, sorted at app.py 102
    idx,               \* the loop's position in events
    event_date,
    event_title,
    processed_files,
    transcript_count,
    report_count,
    slides_count,
    result,            \* the list returned
    exit,              \* the line of the return statement executed, 0 before
    netLog,            \* the requests made: [kind, pos, url, count, open]
    uploadLog,         \* the uploads made: [kind, pos, empty]
    call,              \* the arguments of a call of one function on its own
    ret,               \* what that call returned
    handler,           \* the SupabaseStorageHandler: [client (self.client is not None)]
    bucket,            \* the objects of the bucket "alpinedatalake", by key
    session_state      \* st.session_state (app.py 25-36)

vars == <<provider, apiKey, pc, session, company_data, company_name, events, idx, event_date,
          event_title, processed_files, transcript_count, report_count, slides_count, result,
          exit, netLog, uploadLog, call, ret, handler, bucket,
          session_state>>

unit == <<call, ret>>

apart == <<handler, bucket, session_state>>

inputs == <<provider, apiKey>>

locals == <<company_name, events, idx, event_date, event_title>>

counters == <<transcript_count, report_count, slides_count>>

\* a record of the manifest (app.py 145-151)
FileRecord(filename, kind, date, title) ==
    [filename |-> filename, type |-> kind, event_date |-> date, event_title |-> title,
     s3_url |-> S3Url(filename)]

\* an entry of netLog
Request(kind, pos, url, count) ==
    [kind |-> kind, pos |-> pos, url |-> url, count |-> count, open |-> session = "open"]

\* the handler outside the session: the session stays as it was
OuterExceptSessionKept ==
    /\ pc' = "done"
    /\ session' = session
    /\ result' = <<>>
    /\ exit' = 217

\* the outermost handler of process_company_documents (app.py 215-217):
\* the session is left, the error shown, [] returned
OuterExcept ==
    /\ pc' = "done"
    /\ session' = "closed"
    /\ result' = <<>>
    /\ exit' = 217

\* the keys of the bucket and the bytes stored under them
Keys ==
    {"a/transcript/a_20240101_transcript.pdf", "a/report/a_20240101_report.pdf"}

Contents ==
    {<<>>, <<37>>, <<37, 80>>}

EmptyBucket ==
    [k \in Keys |-> NoObject]

\* SupabaseStorageHandler.__init__ (utils.py 41-49): client is what
\* init_supabase_storage_client() gave, None included
Handlers ==
    [client : BOOLEAN]

\* st.session_state.company_data = None
NoCompanyData ==
    [isNone |-> TRUE, name |-> "", quartr_id |-> ""]

\* app.py 25-36: the session state of a new session
InitSessionState ==
    [chat_history |-> <<>>, processed_files |-> <<>>, current_company |-> "",
     company_data |-> NoCompanyData, documents_fetched |-> FALSE]

\* the store and its handler when the run does not use them
InitApart ==
    /\ handler = [client |-> TRUE]
    /\ bucket = EmptyBucket
    /\ session_state = InitSessionState

\* the state of a run before its first step
InitRun ==
    /\ pc = "start"
    /\ session = "none"
    /\ company_data = Shape(EventsExcept)
    /\ company_name = <<>>
    /\ events = <<>>
    /\ idx = 0
    /\ event_date = <<>>
    /\ event_title = <<>>
    /\ processed_files = <<>>
    /\ transcript_count = 0
    /\ report_count = 0
    /\ slides_count = 0
    /\ result = <<>>
    /\ exit = 0
    /\ netLog = <<>>
    /\ uploadLog = <<>>

\* no call of process_transcript on its own
NoCall ==
    [transcript_url |-> <<>>, transcripts |-> EmptyMeta, resp |-> TransportError]

Pending ==
    [done |-> FALSE, raised |-> FALSE, text |-> <<>>, fetched |-> <<>>]

\* ----------------------------------------------------------------- actions

\* the events request of a run
EventsUrl ==
    <<"https:", "", "api.quartr.com", "public", "v1", "companies", "id", "earlier-events">>

\* app.py 86-96: the session is entered, the clients are made, the events are
\* requested; no events: [] is returned
GetEvents ==
    /\ pc = "start"
    /\ IF ~apiKey
       THEN \* QuartrAPI() raises ValueError (utils.py 320)
            /\ OuterExcept
            /\ UNCHANGED <<company_data, events, netLog>>
       ELSE LET got == get_company_events(provider)
            IN  /\ company_data' = Shape(got)
                /\ events' = got.events
                /\ netLog' = Append(netLog, [kind |-> "events", pos |-> 0, url |-> EventsUrl,
                                             count |-> 0, open |-> TRUE])
                /\ IF got.raised
                   THEN OuterExcept
                   ELSE IF got.empty
                   THEN \* if not company_data: return []
                        /\ pc' = "done"
                        /\ session' = "closed"
                        /\ result' = <<>>
                        /\ exit' = 96
                   ELSE /\ pc' = "sort"
                        /\ session' = "open"
                        /\ UNCHANGED <<result, exit>>
    /\ UNCHANGED <<inputs, apart, unit, company_name, idx, event_date, event_title, processed_files,
                   counters, uploadLog>>

\* app.py 98-107: the company name, the events sorted, the counters at 0
SortEvents ==
    /\ pc = "sort"
    /\ company_name' = DisplayNameOf(company_data)
    /\ IF company_data.eventsNone \/ SortRaises(events)
       THEN \* events.sort raises
            /\ OuterExcept
            /\ UNCHANGED <<events, idx>>
       ELSE /\ events' = SortDesc(events)
            /\ idx' = 1
            /\ pc' = "head"
            /\ UNCHANGED <<session, result, exit>>
    /\ UNCHANGED <<inputs, apart, unit, company_data, event_date, event_title, processed_files, counters,
                   netLog, uploadLog>>

\* the loop is left: no event is left, or the break of app.py 112-113
LoopDone ==
    \/ idx > Len(events)
    \/ (transcript_count >= MaxPerKind /\ report_count >= MaxPerKind
        /\ slides_count >= MaxPerKind)

\* app.py 110-116: the next event is taken, or the loop is left; the event's
\* date and title are read
LoopHead ==
    /\ pc = "head"
    /\ IF LoopDone
       THEN /\ pc' = "return"
            /\ UNCHANGED <<session, result, exit, event_date, event_title>>
       ELSE LET e == Dict(events[idx])
            IN  IF e.eventDate = NoneT
                THEN \* None has no .split
                     /\ OuterExcept
                     /\ UNCHANGED <<event_date, event_title>>
                ELSE /\ event_date' = SplitOn(SortKey(events[idx]), CH_T, <<>>)[1]
                     /\ event_title' = IF e.eventTitle = Absent THEN UnknownEvent
                                       ELSE e.eventTitle
                     /\ pc' = "transcript"
                     /\ UNCHANGED <<session, result, exit>>
    /\ UNCHANGED <<inputs, apart, unit, company_data, company_name, events, idx, processed_files, counters, netLog,
                   uploadLog>>

\* the cap with an off-by-one: a kind is fetched while its counter is <= 2
BelowCapInclusive(count) ==
    count <= MaxPerKind

\* no cap at all
BelowCapNone(count) ==
    count >= 0

\* "transcript_count < 2" (app.py 119), "report_count < 2" (157),
\* "slides_count < 2" (186)
BelowCap(count) ==
    count < MaxPerKind

\* app.py 122-125: the transcripts object handed to process_transcript
TranscriptsOf(e) ==
    IF MetaFalsy(e.transcripts) THEN e.liveTranscripts ELSE e.transcripts

\* app.py 119-154: the transcript of the event
\* [fetched, uploads, files]: the URLs requested, the uploads made, the records appended
TranscriptBlock(e) ==
    LET nothing == [fetched |-> <<>>, uploads |-> <<>>, files |-> <<>>]
    IN
    IF ~(BelowCap(transcript_count) /\ TruthyU(e.transcriptUrl)) THEN nothing
    ELSE LET t == process_transcript(e.transcriptUrl, TranscriptsOf(e), Net(e))
             got == [nothing EXCEPT !.fetched = t.fetched]
         IN  IF t.raised \/ ~Truthy(t.text) THEN got
             ELSE LET pdf == create_pdf(company_name, event_title, event_date, t.text, e.render)
                      fn == create_filename(company_name, event_date, event_title,
                                            KindStr("transcript"), TranscriptPdfName)
                      up == upload_file(e.tUpload)
                      sent == [got EXCEPT !.uploads =
                                  <<[kind |-> "transcript", pos |-> e.pos,
                                     empty |-> pdf.empty]>>]
                  IN  IF pdf.raised \/ fn.raised THEN got
                      ELSE IF up.raised \/ ~up.success THEN sent
                      ELSE [sent EXCEPT !.files =
                               <<FileRecord(fn.filename, "transcript", event_date, event_title)>>]

\* app.py 157-183 and 186-212: a report or the slides of the event, fetched and
\* uploaded as it is
DirectBlock(kind, e, url, resp, answer, count) ==
    LET nothing == [fetched |-> <<>>, uploads |-> <<>>, files |-> <<>>]
    IN
    IF ~(BelowCap(count) /\ TruthyU(url)) THEN nothing
    ELSE LET got == [nothing EXCEPT !.fetched = <<url>>]
             fn == create_filename(company_name, event_date, event_title, KindStr(kind),
                                   Chars(url[Len(url)]))
             up == upload_file(answer)
             sent == [got EXCEPT !.uploads =
                         <<[kind |-> kind, pos |-> e.pos, empty |-> FALSE]>>]
         IN  IF resp.exc \/ resp.status # HTTP_OK \/ fn.raised THEN got
             ELSE IF up.raised \/ ~up.success THEN sent
             ELSE [sent EXCEPT !.files =
                      <<FileRecord(fn.filename, kind, event_date, event_title)>>]

\* the requests of a block as entries of netLog
RECURSIVE Requests(_, _, _, _)
Requests(kind, pos, urls, count) ==
    IF urls = <<>> THEN <<>>
    ELSE <<Request(kind, pos, Head(urls), count)>> \o Requests(kind, pos, Tail(urls), count)

\* app.py 119-154
ProcessTranscript ==
    /\ pc = "transcript"
    /\ LET e == Dict(events[idx])
           b == TranscriptBlock(e)
       IN  /\ netLog' = netLog \o Requests("transcript", e.pos, b.fetched, transcript_count)
           /\ uploadLog' = uploadLog \o b.uploads
           /\ processed_files' = processed_files \o b.files
           /\ transcript_count' = transcript_count + Len(b.files)
    /\ pc' = "report"
    /\ UNCHANGED <<inputs, apart, unit, company_data, session, locals, report_count, slides_count, result,
                   exit>>

\* app.py 157-183
ProcessReport ==
    /\ pc = "report"
    /\ LET e == Dict(events[idx])
           b == DirectBlock("report", e, e.reportUrl, e.rResp, e.rUpload, report_count)
       IN  /\ netLog' = netLog \o Requests("report", e.pos, b.fetched, report_count)
           /\ uploadLog' = uploadLog \o b.uploads
           /\ processed_files' = processed_files \o b.files
           /\ report_count' = report_count + Len(b.files)
    /\ pc' = "slides"
    /\ UNCHANGED <<inputs, apart, unit, company_data, session, locals, transcript_count, slides_count,
                   result, exit>>

\* app.py 186-212, and the loop goes to the next event
ProcessSlides ==
    /\ pc = "slides"
    /\ LET e == Dict(events[idx])
           b == DirectBlock("slides", e, e.pdfUrl, e.sResp, e.sUpload, slides_count)
       IN  /\ netLog' = netLog \o Requests("slides", e.pos, b.fetched, slides_count)
           /\ uploadLog' = uploadLog \o b.uploads
           /\ processed_files' = processed_files \o b.files
           /\ slides_count' = slides_count + Len(b.files)
    /\ pc' = "head"
    /\ idx' = idx + 1
    /\ UNCHANGED <<inputs, apart, unit, company_data, session, company_name, events, event_date, event_title,
                   transcript_count, report_count, result, exit>>

\* app.py 214: return processed_files, and the session is left
ReturnFiles ==
    /\ pc = "return"
    /\ pc' = "done"
    /\ session' = "closed"
    /\ result' = processed_files
    /\ exit' = 214
    /\ UNCHANGED <<inputs, apart, unit, company_data, locals, processed_files, counters, netLog, uploadLog>>

Next ==
    \/ GetEvents
    \/ SortEvents
    \/ LoopHead
    \/ ProcessTranscript
    \/ ProcessReport
    \/ ProcessSlides
    \/ ReturnFiles

\* ------------------------------------------------------------------ inputs

\* a regular event: every document there, every request and upload succeeding
RegularEvent(id, day) ==
    [pos |-> id, day |-> day, date |-> "day", title |-> "str", turl |-> "app",
     meta |-> "embedded", tAns |-> "ok", render |-> "ok", tUp |-> "ok",
     rUrl |-> TRUE, rAns |-> "ok", rUp |-> "ok", sUrl |-> TRUE, sAns |-> "ok", sUp |-> "ok"]

TranscriptFaults ==
    {"500", "exc", "empty_ttext", "no_text", "empty_text", "top_text", "plain", "blank"}

FileFaults ==
    {"500", "exc"}

UploadFaults ==
    {"false", "raise"}

\* one respect in which an event differs from the regular event
Difference(field, value, meta) ==
    [field |-> field, value |-> value, meta |-> meta]

NoDifference ==
    Difference("none", "-", "-")

Differences ==
    {Difference("date", v, "-") : v \in {"null", "absent"}}
    \cup {Difference("title", v, "-") : v \in {"null", "absent"}}
    \cup {Difference("source", "app", m) :
              m \in {"empty", "nested_live", "event_live", "null_live"}}
    \cup {Difference("source", "web", m) : m \in {"empty", "event_live", "null_live"}}
    \cup {Difference("source", "none", "embedded")}
    \cup {Difference("tAns", v, "-") : v \in TranscriptFaults}
    \cup {Difference("render", v, "-") : v \in {"build_fail", "header_fail"}}
    \cup {Difference(f, v, "-") : f \in {"tUp", "rUp", "sUp"}, v \in UploadFaults}
    \cup {Difference(f, "absent", "-") : f \in {"rUrl", "sUrl"}}
    \cup {Difference(f, v, "-") : f \in {"rAns", "sAns"}, v \in FileFaults}

\* the regular event r with the difference d
Differing(r, d) ==
    CASE d.field = "date" -> [r EXCEPT !.date = d.value]
      [] d.field = "title" -> [r EXCEPT !.title = d.value]
      [] d.field = "source" -> [r EXCEPT !.turl = d.value, !.meta = d.meta]
      [] d.field = "tAns" -> [r EXCEPT !.tAns = d.value]
      [] d.field = "render" -> [r EXCEPT !.render = d.value]
      [] d.field = "tUp" -> [r EXCEPT !.tUp = d.value]
      [] d.field = "rUp" -> [r EXCEPT !.rUp = d.value]
      [] d.field = "sUp" -> [r EXCEPT !.sUp = d.value]
      [] d.field = "rUrl" -> [r EXCEPT !.rUrl = FALSE]
      [] d.field = "sUrl" -> [r EXCEPT !.sUrl = FALSE]
      [] d.field = "rAns" -> [r EXCEPT !.rAns = d.value]
      [] d.field = "sAns" -> [r EXCEPT !.sAns = d.value]
      [] OTHER -> r

\* the day of the event at place i: the provider's list of Spec is oldest
\* first, so that the sort has to turn it round (SpecOrder has every order)
DayAt(i) ==
    i

\* which events of a list of n are not regular, and how: up to MaxFaults
\* places in increasing order, the unused entries (place 0) first
FaultPlans(n) ==
    {f \in [1..MaxFaults -> ({<<0, NoDifference>>} \cup ((1..n) \X Differences))] :
        \A k \in 1..(MaxFaults - 1) : f[k][1] = 0 \/ f[k][1] < f[k + 1][1]}

\* the list of n events that plan f describes
EventList(n, f) ==
    [i \in 1..n |->
        LET r == RegularEvent(i, DayAt(i))
        IN  IF \E k \in 1..MaxFaults : f[k][1] = i
            THEN Differing(r, f[CHOOSE k \in 1..MaxFaults : f[k][1] = i][2])
            ELSE r]

\* the provider's answers to the events request
EventsAnswer(exc, status, ctype, body, evs) ==
    [exc |-> exc, status |-> status, ctype |-> ctype, body |-> body, events |-> evs]

\* the provider is not reached
NoAnswer ==
    EventsAnswer(TRUE, 0, "none", "invalid", <<>>)

\* the answers that carry no list of events
FailedAnswers ==
    {EventsAnswer(FALSE, HTTP_OK, "json", b, <<>>) : b \in {"nodata", "null", "array", "invalid"}}
    \cup {EventsAnswer(FALSE, HTTP_OK, "html", "invalid", <<>>),
          EventsAnswer(FALSE, 500, "json", "invalid", <<>>),
          EventsAnswer(FALSE, 404, "json", "nodata", <<>>),
          NoAnswer}

\* ----------------------------------------------------------- specifications

\* a run of process_company_documents on any answer of the provider
Init ==
    /\ \/ /\ apiKey = TRUE
          /\ \/ \E n \in 0..MaxEvents : \E f \in FaultPlans(n) :
                    provider = EventsAnswer(FALSE, HTTP_OK, "json", "list",
                                            EventList(n, f))
             \/ provider \in FailedAnswers
       \/ \* without a key no request is made
          /\ apiKey = FALSE
          /\ provider = NoAnswer
    /\ InitRun
    /\ InitApart
    /\ call = NoCall
    /\ ret = Pending

Spec == Init /\ [][Next]_vars

\* ---------------------------------------------- the order of the provider

\* the ways NumOrderEvents events can have the days 1..NumOrderEvents
DayOrders ==
    {p \in [1..NumOrderEvents -> 1..NumOrderEvents] :
        \A i, j \in 1..NumOrderEvents : i # j => p[i] # p[j]}

\* the days whose event has a transcript: NumOrderTranscripts of them
TranscriptDays ==
    {T \in SUBSET (1..NumOrderEvents) : Cardinality(T) = NumOrderTranscripts}

\* the list whose event at place i has day p[i]; every report and slides
\* document is there, the transcripts of the days in T are; every request and
\* upload succeeds
OrderedList(p, T) ==
    [i \in 1..NumOrderEvents |->
        IF p[i] \in T THEN RegularEvent(i, p[i])
        ELSE [RegularEvent(i, p[i]) EXCEPT !.turl = "none", !.meta = "empty"]]

\* a run on NumOrderEvents events of distinct dates in any order
InitOrder ==
    /\ apiKey = TRUE
    /\ \E p \in DayOrders, T \in TranscriptDays :
          provider = EventsAnswer(FALSE, HTTP_OK, "json", "list", OrderedList(p, T))
    /\ InitRun
    /\ InitApart
    /\ call = NoCall
    /\ ret = Pending

SpecOrder == InitOrder /\ [][Next]_vars

\* ------------------------------------- process_transcript called on its own

\* an app URL whose last segment but one is no number, and one without a '/'
AppUrlNoId ==
    <<"https:", "", "app.quartr.com", "events", "latest", "transcript">>

AppUrlShort ==
    <<"app.quartr.com">>

TranscriptUrls ==
    {<<>>, AppUrl(1), WebUrl(1), AppUrlNoId, AppUrlShort}

\* the shapes of the transcripts argument
TranscriptsShapes ==
    {EmptyMeta, NoneMeta,
     [EmptyMeta EXCEPT !.transcriptUrl = RawUrl(1)],
     [EmptyMeta EXCEPT !.transcriptUrl = <<>>],
     [EmptyMeta EXCEPT !.transcriptUrl = RawUrl(1), !.liveTranscripts = "dict",
                       !.nestedFinished = LiveUrl(1)],
     [EmptyMeta EXCEPT !.liveTranscripts = "dict", !.nestedFinished = LiveUrl(1)],
     [EmptyMeta EXCEPT !.liveTranscripts = "dict"],
     [EmptyMeta EXCEPT !.liveTranscripts = "null"],
     [EmptyMeta EXCEPT !.finishedLiveTranscriptUrl = LiveUrl(1)]}

\* the answers of the network
TranscriptResponses ==
    {TranscriptAnswer(a) : a \in TranscriptFaults \cup {"ok"}}
    \cup {Response(404, "html", PlainBody(SomeText)),
          Response(HTTP_OK, "html", PlainBody(SomeText)),
          Response(HTTP_OK, "html", JsonObject("dict", SomeText, Absent)),
          Response(HTTP_OK, "json", PlainBody(<<>>)),
          Response(HTTP_OK, "json", [EmptyBody EXCEPT !.kind = "array"]),
          Response(HTTP_OK, "json", [EmptyBody EXCEPT !.kind = "number"]),
          Response(HTTP_OK, "json", JsonObject("null", Absent, Absent)),
          Response(HTTP_OK, "json", JsonObject("null", Absent, SomeText)),
          Response(HTTP_OK, "json", JsonObject("dict", NoneT, Absent)),
          Response(HTTP_OK, "json", JsonObject("dict", <<CH_SP>>, Absent)),
          Response(HTTP_OK, "json", JsonObject("dict", <<>>, SomeText)),
          Response(HTTP_OK, "json", JsonObject("absent", Absent, NoneT)),
          Response(HTTP_OK, "json", JsonObject("absent", Absent, <<CH_SP, CH_NL>>))}

\* the network of a call: every URL gets the call's response
CallNet(c) ==
    [u \in {RawUrl(1), LiveUrl(1), ApiDocumentUrl(PosSeg(1))} |-> c.resp]

InitT ==
    /\ apiKey = TRUE
    /\ provider = NoAnswer
    /\ InitRun
    /\ InitApart
    /\ call \in [transcript_url : TranscriptUrls, transcripts : TranscriptsShapes,
                 resp : TranscriptResponses]
    /\ ret = Pending

\* await TranscriptProcessor.process_transcript(transcript_url, transcripts, session)
CallProcessTranscript ==
    /\ ~ret.done
    /\ LET r == process_transcript(call.transcript_url, call.transcripts, CallNet(call))
       IN  ret' = [done |-> TRUE, raised |-> r.raised, text |-> r.text, fetched |-> r.fetched]
    /\ UNCHANGED <<inputs, apart, call, pc, session, company_data, locals, processed_files, counters,
                   result, exit, netLog, uploadLog>>

NextT ==
    CallProcessTranscript

SpecT == InitT /\ [][NextT]_vars

\* --------------------------------- format_transcript_text called on its own

\* the characters of the texts: a letter, a space, a period, a backslash, an n
\* and a line feed
Alphabet ==
    {CH_a, CH_SP, CH_DOT, CH_BSL, CH_n, CH_NL}

\* "Hello world. This is a test."
ExampleText ==
    <<72, 101, 108, 108, 111, 32, 119, 111, 114, 108, 100, 46, 32,
      84, 104, 105, 115, 32, 105, 115, 32, 97, 32, 116, 101, 115, 116, 46>>

\* "Hello world.\n\nThis is a test."
ExampleFormatted ==
    <<72, 101, 108, 108, 111, 32, 119, 111, 114, 108, 100, 46, 10, 10,
      84, 104, 105, 115, 32, 105, 115, 32, 97, 32, 116, 101, 115, 116, 46>>

Texts ==
    UNION {[1..n -> Alphabet] : n \in 0..MaxLen} \cup {ExampleText}

InitF ==
    /\ apiKey = TRUE
    /\ provider = NoAnswer
    /\ InitRun
    /\ InitApart
    /\ call \in [text : Texts]
    /\ ret = Pending

\* TranscriptProcessor.format_transcript_text(text)
CallFormat ==
    /\ ~ret.done
    /\ LET r == format_transcript_text(call.text)
       IN  ret' = [done |-> TRUE, raised |-> r.raised, text |-> r.text, fetched |-> <<>>]
    /\ UNCHANGED <<inputs, apart, call, pc, session, company_data, locals, processed_files, counters,
                   result, exit, netLog, uploadLog>>

NextF ==
    CallFormat

SpecF == InitF /\ [][NextF]_vars

\* -------------------------------------------------- create_pdf called on its own

\* strings with the characters of markup in them: 'a', '&', '<b>', 'a&b',
\* '&amp;', 'a>'
MarkupStrings ==
    {<<CH_a>>, <<CH_AMP>>, <<CH_LT, 98, CH_GT>>, <<CH_a, CH_AMP, 98>>, AmpEntity,
     <<CH_a, CH_GT>>}

\* transcript texts: none, a formatted text of two sentences, one with markup
\* in it, whitespace only
PdfTexts ==
    {<<>>, format_transcript_text(SomeText).text, <<CH_a, CH_LT, CH_AMP, CH_DOT>>,
     <<CH_SP, CH_NL, CH_NL>>}

Renderings ==
    {"ok", "header_fail", "para_fail", "build_fail"}

InitP ==
    /\ apiKey = TRUE
    /\ provider = NoAnswer
    /\ InitRun
    /\ InitApart
    /\ call \in [company_name : MarkupStrings \cup {NoneT},
                 event_title : MarkupStrings \cup {NoneT},
                 event_date : MarkupStrings \cup {DateStr(1), NoneT},
                 transcript_text : PdfTexts,
                 render : Renderings]
    /\ ret = Pending

\* transcript_processor.create_pdf(company_name, event_title, event_date, transcript_text)
CallCreatePdf ==
    /\ ~ret.done
    /\ LET r == create_pdf(call.company_name, call.event_title, call.event_date,
                           call.transcript_text, call.render)
           m == StoryOf(call.company_name, call.event_title, call.event_date,
                        call.transcript_text, call.render)
       IN  ret' = [done |-> TRUE, raised |-> r.raised, empty |-> r.empty,
                   header |-> m.header, story |-> m.story]
    /\ UNCHANGED <<inputs, apart, call, pc, session, company_data, locals, processed_files, counters,
                   result, exit, netLog, uploadLog>>

NextP ==
    CallCreatePdf

SpecP == InitP /\ [][NextP]_vars

\* ------------------------------ the storage handler over an in-memory store

UploadEnvs ==
    [client : {"ok", "raises"}, anonKey : {"set", "empty"},
     http : [exc : {FALSE}, status : {200, 201, 400, 500}]
            \cup {[exc |-> TRUE, status |-> 0]}]

DownloadEnvs ==
    [client : {"ok", "raises"}, http : {"ok", "error", "exc"}]

LocalPaths ==
    [dir : BOOLEAN]

InitS ==
    /\ apiKey = TRUE
    /\ provider = NoAnswer
    /\ InitRun
    /\ handler \in Handlers
    /\ bucket = EmptyBucket
    /\ session_state = InitSessionState
    /\ call = NoCall
    /\ ret = Pending

\* await handler.upload_file(file_data, filename, 'application/pdf'); the store
\* keeps the bytes of an upload it accepted, replacing what was under the key
UploadFile ==
    /\ \E filename \in Keys, file_data \in Contents, env \in UploadEnvs :
          LET r == SupabaseStorageHandler_upload_file(handler, file_data, filename,
                                                      "application/pdf", env)
          IN  /\ call' = [op |-> "upload", filename |-> filename, file_data |-> file_data,
                          env |-> env]
              /\ ret' = [done |-> TRUE, raised |-> r.raised, success |-> r.success,
                         attempts |-> r.attempts, written |-> NoObject]
              /\ bucket' = IF r.stored THEN [bucket EXCEPT ![filename] = file_data] ELSE bucket
    /\ UNCHANGED <<inputs, handler, session_state, pc, session, company_data, locals, processed_files, counters,
                   result, exit, netLog, uploadLog>>

\* await handler.download_file(filename, local_path)
DownloadFile ==
    /\ \E filename \in Keys, local_path \in LocalPaths, env \in DownloadEnvs :
          LET r == SupabaseStorageHandler_download_file(handler, filename, local_path,
                                                        bucket, env)
          IN  /\ call' = [op |-> "download", filename |-> filename, local_path |-> local_path,
                          env |-> env]
              /\ ret' = [done |-> TRUE, raised |-> r.raised, success |-> r.success,
                         attempts |-> r.attempts, written |-> r.written]
    /\ UNCHANGED <<inputs, apart, pc, session, company_data, locals, processed_files, counters,
                   result, exit, netLog, uploadLog>>

NextS ==
    \/ UploadFile
    \/ DownloadFile

SpecS == InitS /\ [][NextS]_vars

\* ------------------------------------------------------- the chat (app.py main)

\* get_company_names(): the companies of the sidebar; "" is Python's None (no
\* company to select)
CompanyNames ==
    {"Acme", "Beta"}

\* get_quartrid_by_name(selected_company)
QuartrIdOf(name) ==
    IF name = "Acme" THEN "4742" ELSE "5714"

\* what process_company_documents(quartr_id) can return (the result of a run
\* of Spec on the events of that company, whose titles tell the companies
\* apart): no record, a transcript, a transcript and a report
ManifestOf(quartr_id, n) ==
    LET date == SubSeq(DateStr(1), 1, 7)
        title == TitleStr(IF quartr_id = QuartrIdOf("Acme") THEN 1 ELSE 2)
        transcript == create_filename(UnknownCompany, date, title,
                                      KindStr("transcript"), TranscriptPdfName).filename
        report == create_filename(UnknownCompany, date, title, KindStr("report"),
                                  Chars("report.pdf")).filename
    IN  SubSeq(<<FileRecord(transcript, "transcript", date, title),
                 FileRecord(report, "report", date, title)>>, 1, n)

\* a message of the chat history; content is the text (the user's query, a
\* fixed reply or what query_gemini returned) and the number of entries of
\* the sources section appended to it
Message(role, text, sources) ==
    [role |-> role, content |-> [text |-> text, sources |-> sources]]

\* the reply left out
ReplyNothing(state, text, sources) ==
    state

\* st.session_state.chat_history.append({"role": "assistant", "content": response})
\* (app.py 356, 370, 380, 421, 425)
Reply(state, text, sources) ==
    [state EXCEPT !.chat_history = Append(@, Message("assistant", text, sources))]

\* 's3://'
S3Scheme == <<115, 51, 58, 47, 47>>

\* s.replace('s3://', ''): every occurrence of the scheme is taken out (two
\* occurrences cannot overlap)
RemoveScheme(s) ==
    LET n == Len(S3Scheme)
        starts == {i \in 1..Len(s) : i + n - 1 <= Len(s) /\ SubSeq(s, i, i + n - 1) = S3Scheme}
        kept == SelectSeq([j \in 1..Len(s) |-> j],
                          LAMBDA j : \A i \in starts : j < i \/ j > i + n - 1)
    IN  [k \in 1..Len(kept) |-> s[kept[k]]]

\* the locator split at its last '/'
BucketAndKeyAtLastSlash(s3_url) ==
    LET s3_path == RemoveScheme(s3_url)
        slashes == {i \in 1..Len(s3_path) : s3_path[i] = 47}
        last == CHOOSE i \in slashes : \A j \in slashes : i >= j
    IN  IF slashes = {} THEN [raised |-> TRUE, bucket |-> <<>>, key |-> <<>>]
        ELSE [raised |-> FALSE,
              bucket |-> SubSeq(s3_path, 1, last - 1),
              key |-> SubSeq(s3_path, last + 1, Len(s3_path))]

\* app.py 234-235: s3_path = s3_url.replace('s3://', ''); bucket, key =
\* s3_path.split('/', 1), a ValueError without a '/'
BucketAndKey(s3_url) ==
    LET s3_path == RemoveScheme(s3_url)
        slashes == {i \in 1..Len(s3_path) : s3_path[i] = 47}
        first == CHOOSE i \in slashes : \A j \in slashes : i <= j
    IN  IF slashes = {} THEN [raised |-> TRUE, bucket |-> <<>>, key |-> <<>>]
        ELSE [raised |-> FALSE,
              bucket |-> SubSeq(s3_path, 1, first - 1),
              key |-> SubSeq(s3_path, first + 1, Len(s3_path))]

\* the files of file_infos whose locator can be split into bucket and key
Splittable(file_infos) ==
    {i \in 1..Len(file_infos) : ~BucketAndKey(file_infos[i].s3_url).raised}

\* download_files_from_s3 (app.py 219-243): the files that were downloaded
\* (env.downloaded: the locator was split and s3_client.download_file did not
\* raise), as positions in file_infos; every failure is caught per file (239-240)
download_files_from_s3(file_infos, env) ==
    SelectSeq([i \in 1..Len(file_infos) |-> i], LAMBDA i : i \in env.downloaded)

\* the model taken as configured whatever the key
InitializeGeminiAlways(env) ==
    TRUE

\* initialize_gemini (app.py 68-80): None without a key and when
\* genai.configure raises
initialize_gemini(env) ==
    env.gemini \notin {"no_key", "configure_raises"}

\* the test of the parts left out
NoContentsNever(contents) ==
    contents # contents

\* app.py 276: if not contents
NoContents(contents) ==
    contents = <<>>

\* query_gemini (app.py 246-295): [text (what is returned), generate (the
\* calls of model.generate_content made: the number of document parts of each)]
query_gemini(query, file_paths, env) ==
    IF ~initialize_gemini(env)
    THEN [text |-> "Error initializing Gemini client", generate |-> <<>>]
    ELSE LET contents == SelectSeq(file_paths, LAMBDA i : i \in env.readable)
         IN  IF NoContents(contents)
             THEN [text |-> "No files were successfully processed for Gemini",
                   generate |-> <<>>]
             ELSE IF env.gemini = "generate_raises"
             THEN [text |-> "An error occurred while processing your query",
                   generate |-> <<Len(contents)>>]
             ELSE [text |-> "response.text", generate |-> <<Len(contents)>>]

\* the sidebar that keeps the conversation of the previous company
SidebarKeepsHistory(state, selected_company) ==
    IF selected_company # "" /\ state.current_company # selected_company
    THEN [state EXCEPT !.current_company = selected_company,
                       !.company_data = [isNone |-> FALSE, name |-> selected_company,
                                         quartr_id |-> QuartrIdOf(selected_company)],
                       !.processed_files = <<>>,
                       !.documents_fetched = FALSE]
    ELSE state

\* the sidebar that keeps the manifest of the previous company
SidebarKeepsFiles(state, selected_company) ==
    IF selected_company # "" /\ state.current_company # selected_company
    THEN [state EXCEPT !.current_company = selected_company,
                       !.company_data = [isNone |-> FALSE, name |-> selected_company,
                                         quartr_id |-> QuartrIdOf(selected_company)],
                       !.chat_history = <<>>]
    ELSE state

\* app.py 315-335: the sidebar
Sidebar(state, selected_company) ==
    IF selected_company # "" /\ state.current_company # selected_company
    THEN [state EXCEPT !.current_company = selected_company,
                       !.company_data = [isNone |-> FALSE, name |-> selected_company,
                                         quartr_id |-> QuartrIdOf(selected_company)],
                       !.chat_history = <<>>,
                       !.processed_files = <<>>,
                       !.documents_fetched = FALSE]
    ELSE state

\* documents_fetched is set only when the run returned documents
TurnRefetchesEmpty(state, query, acquired, env) ==
    LET asked == [state EXCEPT !.chat_history = Append(@, Message("user", query, 0))]
        fetch == ~asked.documents_fetched
        fetched == IF fetch
                   THEN [asked EXCEPT !.processed_files = acquired,
                                      !.documents_fetched = acquired # <<>>]
                   ELSE asked
        local_files == download_files_from_s3(fetched.processed_files, env)
        answer == query_gemini(query, local_files, env)
        acquire == IF fetch THEN asked.company_data.quartr_id ELSE ""
        none == [state |-> asked, generate |-> <<>>, read |-> 0, acquire |-> acquire]
    IN
    IF asked.company_data.isNone
    THEN [none EXCEPT !.state =
             Reply(asked, "Please select a company from the sidebar first.", 0),
                      !.acquire = ""]
    ELSE IF fetch /\ fetched.processed_files = <<>>
    THEN [none EXCEPT !.state = Reply(fetched, "No documents found for this company.", 0)]
    ELSE IF fetched.processed_files = <<>>
    THEN [none EXCEPT !.state =
             Reply(fetched, "No documents are available for this company.", 0)]
    ELSE IF local_files = <<>>
    THEN [none EXCEPT !.state = Reply(fetched, "Error downloading files from S3.", 0)]
    ELSE [state |-> Reply(fetched, answer.text, Len(fetched.processed_files)),
          generate |-> answer.generate,
          acquire |-> acquire,
          read |-> Cardinality({i \in 1..Len(local_files) : local_files[i] \in env.readable})]

\* app.py 343-425: a submitted query; acquired is what
\* process_company_documents returns when it is called
\* [state (the session state afterwards), generate, read (the documents
\* query_gemini could read), acquire (the company id
\* process_company_documents was called with, "" when it was not called)]
Turn(state, query, acquired, env) ==
    LET asked == [state EXCEPT !.chat_history = Append(@, Message("user", query, 0))]
        fetch == ~asked.documents_fetched
        fetched == IF fetch
                   THEN [asked EXCEPT !.processed_files = acquired,
                                      !.documents_fetched = TRUE]
                   ELSE asked
        local_files == download_files_from_s3(fetched.processed_files, env)
        answer == query_gemini(query, local_files, env)
        acquire == IF fetch THEN asked.company_data.quartr_id ELSE ""
        none == [state |-> asked, generate |-> <<>>, read |-> 0, acquire |-> acquire]
    IN
    IF asked.company_data.isNone
    THEN [none EXCEPT !.state =
             Reply(asked, "Please select a company from the sidebar first.", 0),
                      !.acquire = ""]
    ELSE IF fetch /\ fetched.processed_files = <<>>
    THEN [none EXCEPT !.state = Reply(fetched, "No documents found for this company.", 0)]
    ELSE IF fetched.processed_files = <<>>
    THEN [none EXCEPT !.state =
             Reply(fetched, "No documents are available for this company.", 0)]
    ELSE IF local_files = <<>>
    THEN [none EXCEPT !.state = Reply(fetched, "Error downloading files from S3.", 0)]
    ELSE [state |-> Reply(fetched, answer.text, Len(fetched.processed_files)),
          generate |-> answer.generate,
          acquire |-> acquire,
          read |-> Cardinality({i \in 1..Len(local_files) : local_files[i] \in env.readable})]

\* what surrounds a turn: downloaded (the files s3_client.download_file got,
\* all of them among the files whose locator can be split), readable (the
\* local files open() can read), gemini ("no_key", "configure_raises",
\* "generate_raises", "ok")
ChatEnvs(splittable) ==
    {e \in [downloaded : SUBSET splittable, readable : SUBSET splittable,
            gemini : {"no_key", "configure_raises", "generate_raises", "ok"}] :
        e.readable \subseteq e.downloaded}

InitC ==
    /\ apiKey = TRUE
    /\ provider = NoAnswer
    /\ InitRun
    /\ InitApart
    /\ call = NoCall
    /\ ret = Pending

\* what the session held when a run of the script began: the company and
\* the number of manifest records
Before(state) ==
    [current_company |-> state.current_company, files |-> Len(state.processed_files)]

\* main() (app.py 298-425), one run of the script: load_company_data() gave
\* nothing (304-306), or the sidebar and a query if one was submitted
Main ==
    /\ \/ /\ call' = [op |-> "main", loaded |-> FALSE, selected_company |-> "", query |-> ""]
          /\ ret' = [done |-> TRUE, base |-> Len(session_state.chat_history),
                     generate |-> <<>>, read |-> 0, acquire |-> "",
                     before |-> Before(session_state)]
          /\ UNCHANGED session_state
       \/ \E selected_company \in CompanyNames \cup {""} :
             LET shown == Sidebar(session_state, selected_company)
             IN  \/ /\ call' = [op |-> "main", loaded |-> TRUE,
                                selected_company |-> selected_company, query |-> ""]
                    /\ ret' = [done |-> TRUE, base |-> Len(shown.chat_history),
                               generate |-> <<>>, read |-> 0, acquire |-> "",
                               before |-> Before(session_state)]
                    /\ session_state' = shown
                 \/ /\ Len(shown.chat_history) < 2 * MaxTurns
                    /\ \E files \in 0..2 :
                        LET acquired == ManifestOf(shown.company_data.quartr_id, files)
                            held == IF shown.documents_fetched
                                    THEN shown.processed_files ELSE acquired
                        IN  \E env \in ChatEnvs(Splittable(held)) :
                          LET t == Turn(shown, "query", acquired, env)
                          IN  /\ call' = [op |-> "main", loaded |-> TRUE,
                                          selected_company |-> selected_company,
                                          query |-> "query"]
                              /\ ret' = [done |-> TRUE, base |-> Len(shown.chat_history),
                                         generate |-> t.generate, read |-> t.read,
                                         acquire |-> t.acquire,
                                         before |-> Before(session_state)]
                              /\ session_state' = t.state
    /\ UNCHANGED <<inputs, handler, bucket, pc, session, company_data, locals, processed_files,
                   counters, result, exit, netLog, uploadLog>>

NextC ==
    Main

SpecC == InitC /\ [][NextC]_vars

\* ------------------------------------------------- events of the same date

\* the ways NumTieEvents events can have the days 1..NumTieDays: several
\* events have the same eventDate
TieDayings ==
    [1..NumTieEvents -> 1..NumTieDays]

\* a run on NumTieEvents regular events, some of them of the same date
InitTie ==
    /\ apiKey = TRUE
    /\ \E p \in TieDayings :
          provider = EventsAnswer(FALSE, HTTP_OK, "json", "list",
                                  [i \in 1..NumTieEvents |-> RegularEvent(i, p[i])])
    /\ InitRun
    /\ InitApart
    /\ call = NoCall
    /\ ret = Pending

SpecTie == InitTie /\ [][Next]_vars

\* ------------------------------------------ the two API keys (QUARTR, GEMINI)

\* a run of process_company_documents with or without the provider's key on
\* a list of at most one event, and then a call of query_gemini on the files
\* of its manifest with or without the model's key
InitK ==
    /\ \/ /\ apiKey = TRUE
          /\ \E n \in 0..1 : \E f \in FaultPlans(n) :
                provider = EventsAnswer(FALSE, HTTP_OK, "json", "list", EventList(n, f))
       \/ /\ apiKey = FALSE
          /\ provider = NoAnswer
    /\ InitRun
    /\ InitApart
    /\ call = NoCall
    /\ ret = Pending

\* query_gemini(query, file_paths) (app.py 246-295) on the local copies of
\* the manifest's files
CallQueryGemini ==
    /\ pc = "done"
    /\ ~ret.done
    /\ \E env \in ChatEnvs(Splittable(result)) :
          LET file_paths == download_files_from_s3(result, env)
              answer == query_gemini("query", file_paths, env)
          IN  /\ call' = [op |-> "query_gemini", query |-> "query",
                          file_paths |-> file_paths, env |-> env]
              /\ ret' = [done |-> TRUE, text |-> answer.text, generate |-> answer.generate]
    /\ UNCHANGED <<inputs, apart, pc, session, company_data, locals, processed_files, counters,
                   result, exit, netLog, uploadLog>>

NextK ==
    \/ Next
    \/ CallQueryGemini

SpecK == InitK /\ [][NextK]_vars

\* ------------------------------------------------------------------ claims

Kinds ==
    {"transcript", "report", "slides"}

\* the records of a kind in a manifest, in order
OfKind(files, kind) ==
    SelectSeq(files, LAMBDA r : r.type = kind)

\* the entries of a log for a kind, in order
EntriesOf(log, kind) ==
    SelectSeq(log, LAMBDA x : x.kind = kind)

\* the run is over
Done ==
    pc = "done"

\* the run is over by "return processed_files" (app.py 214)
Returned214 ==
    pc = "done" /\ exit = 214

\* C1: at every step of a run the manifest, and the list returned, hold at
\* most 2 records of each kind and at most 6 records, whatever the provider's
\* events and whatever succeeds or fails.
C1_AtMostTwoPerKind ==
    /\ \A kind \in Kinds : Len(OfKind(processed_files, kind)) <= 2
    /\ Len(processed_files) <= 6
    /\ \A kind \in Kinds : Len(OfKind(result, kind)) <= 2
    /\ Len(result) <= 6

\* C1's case: a run over three events returned 6 records
C1_Witness ==
    /\ Returned214
    /\ Len(events) = 3
    /\ Len(result) = 6
    /\ \A kind \in Kinds : Len(OfKind(result, kind)) = 2

\* the event date a record of the event of day d carries
RecordDate(d) ==
    SubSeq(DateStr(d), 1, 7)

\* the days of the provider's events that have a document of the kind
DaysWith(kind) ==
    {provider.events[i].day : i \in
        {j \in 1..Len(provider.events) :
            CASE kind = "transcript" -> provider.events[j].turl # "none"
              [] kind = "report" -> provider.events[j].rUrl
              [] kind = "slides" -> provider.events[j].sUrl}}

\* the 2 most recent of a set of days
MostRecentTwo(days) ==
    {d \in days : Cardinality({x \in days : x > d}) < 2}

\* the day of a record
DayOf(r) ==
    CHOOSE d \in 1..NumOrderEvents : RecordDate(d) = r.event_date

\* C2: with events of distinct dates, all fetches and uploads succeeding, the
\* records of each kind in the list returned are those of the 2 most recent
\* events that have a document of the kind, the more recent first, in whatever
\* order the provider returned the events; of 5 events of which 3 have a
\* transcript the oldest transcript event is not chosen.
C2_MostRecentChosen ==
    Done =>
        /\ exit = 214
        /\ \A kind \in Kinds :
              LET recs == OfKind(result, kind)
              IN  /\ {recs[i].event_date : i \in 1..Len(recs)}
                        = {RecordDate(d) : d \in MostRecentTwo(DaysWith(kind))}
                  /\ Len(recs) = 2
                  /\ DayOf(recs[1]) > DayOf(recs[2])

\* C2's case: the provider's list is not sorted, the most recent transcript
\* event is not among its first two, and the run returned
C2_Witness ==
    /\ Returned214
    /\ Len(provider.events) = NumOrderEvents
    /\ provider.events # events
    /\ \E i \in 3..NumOrderEvents :
          /\ provider.events[i].turl # "none"
          /\ \A j \in 1..NumOrderEvents :
                provider.events[j].turl # "none" => provider.events[j].day <= provider.events[i].day
          /\ \E r \in {result[k] : k \in 1..Len(result)} :
                r.type = "transcript" /\ r.event_date = RecordDate(provider.events[i].day)
    /\ \E d \in DaysWith("transcript") :
          \A k \in 1..Len(result) :
              result[k].type = "transcript" => result[k].event_date # RecordDate(d)

\* the provider answered the events request with a list of events
GotEventList ==
    apiKey /\ ~provider.exc /\ provider.status = HTTP_OK /\ provider.ctype = "json"
    /\ provider.body = "list"

\* C3: a failure of one document (a non-200 status, a transport exception, a
\* failed upload, a malformed field of the event) skips that document only: a
\* run that got its list of events goes through the events until none is left
\* or every kind has its 2 records, and returns the records appended; it is
\* never ended by the handler of app.py 215-217.
C3_FailureSkipsOneDocument ==
    (Done /\ GotEventList) =>
        /\ exit = 214
        /\ result = processed_files
        /\ LoopDone

\* the event date and the title of the records of event d
DateOfEvent(d) ==
    IF d.date = "day" THEN RecordDate(d.day) ELSE <<>>

TitleOfEvent(d) ==
    IF d.title = "str" THEN TitleStr(d.pos) ELSE UnknownEvent

\* the manifest has a record of the kind from event d
HasRecord(files, kind, d) ==
    \E k \in 1..Len(files) :
        /\ files[k].type = kind
        /\ files[k].event_date = DateOfEvent(d)
        /\ files[k].event_title = TitleOfEvent(d)

\* the transcript of event d was requested and every request was answered 500
TranscriptFailed(d) ==
    /\ d.tAns = "500"
    /\ \E k \in 1..Len(netLog) : netLog[k].kind = "transcript" /\ netLog[k].pos = d.pos

\* what decides a report or slides record of event d: its URL, the answer to
\* the request, the upload, and a title that is no null
FileGoesThrough(kind, d) ==
    /\ d.title # "null"
    /\ IF kind = "report" THEN d.rUrl /\ d.rAns = "ok" /\ d.rUp = "ok"
       ELSE d.sUrl /\ d.sAns = "ok" /\ d.sUp = "ok"

\* the first 2 events, in the order of the dates, whose document of the kind
\* goes through: nothing of the transcripts enters
ExpectedFrom(kind) ==
    LET through == SelectSeq(events, LAMBDA d : FileGoesThrough(kind, d))
    IN  SubSeq(through, 1, IF Len(through) < 2 THEN Len(through) ELSE 2)

\* the report and slides records are those of ExpectedFrom, in that order
OtherKindsUnaffected ==
    \A kind \in {"report", "slides"} :
        LET recs == OfKind(result, kind)
            from == ExpectedFrom(kind)
        IN  /\ Len(recs) = Len(from)
            /\ \A k \in 1..Len(recs) :
                  /\ recs[k].event_date = DateOfEvent(from[k])
                  /\ recs[k].event_title = TitleOfEvent(from[k])

\* a regular transcript: one that is fetched and uploaded
TranscriptRegular(d) ==
    /\ d.turl = "app" /\ d.meta = "embedded" /\ d.tAns = "ok" /\ d.render = "ok"
    /\ d.tUp = "ok" /\ d.title # "null"

\* the sibling events go on: the first 2 regular transcripts are in the
\* manifest, when every transcript is regular or fails with 500
SiblingsGoOn ==
    (\A i \in 1..Len(events) : TranscriptRegular(events[i]) \/ events[i].tAns = "500") =>
        LET regular == SelectSeq(events, TranscriptRegular)
        IN  /\ Len(OfKind(result, "transcript")) = (IF Len(regular) < 2 THEN Len(regular) ELSE 2)
            /\ \A k \in 1..Len(regular) : k <= 2 => HasRecord(result, "transcript", regular[k])

\* C4 as stated: an event whose transcript fetch fails with 500 contributes no
\* document at all to the manifest, the sibling events are processed, and the
\* report and slides records are what they would be without the failure.
C4_FailedEventContributesNothing ==
    Returned214 =>
        /\ \A i \in 1..Len(events) :
              TranscriptFailed(events[i]) =>
                  \A kind \in Kinds : ~HasRecord(result, kind, events[i])
        /\ SiblingsGoOn
        /\ OtherKindsUnaffected

\* C4 amended: an event whose transcript requests are answered 500
\* contributes no transcript record; its report and slides, and the sibling
\* events, are processed as without the failure: the report and slides records
\* are decided by the reports and slides alone.
C4_FailedTranscriptOnly ==
    Returned214 =>
        /\ \A i \in 1..Len(events) :
              TranscriptFailed(events[i]) => ~HasRecord(result, "transcript", events[i])
        /\ SiblingsGoOn
        /\ OtherKindsUnaffected

\* C4's case: the transcript of the most recent of three events failed with
\* 500; its report and slides and the transcripts of both siblings are in the
\* manifest
C4_Witness ==
    /\ Returned214
    /\ Len(events) = 3
    /\ TranscriptFailed(events[1])
    /\ HasRecord(result, "report", events[1])
    /\ HasRecord(result, "slides", events[1])
    /\ HasRecord(result, "transcript", events[2])
    /\ HasRecord(result, "transcript", events[3])

\* the provider answers 200 with no event: 'data' is the empty list or is missing
ZeroEvents ==
    /\ apiKey /\ ~provider.exc /\ provider.status = HTTP_OK /\ provider.ctype = "json"
    /\ \/ provider.body = "nodata"
       \/ provider.body = "list" /\ provider.events = <<>>

\* the requests and uploads for documents
DocumentRequests ==
    SelectSeq(netLog, LAMBDA x : x.kind \in Kinds)

\* C5: when the provider yields zero events the run returns the empty list by
\* its ordinary return, not through the exception handler, and no document is
\* requested or uploaded.
C5_ZeroEventsEmptyList ==
    ZeroEvents =>
        /\ DocumentRequests = <<>>
        /\ uploadLog = <<>>
        /\ processed_files = <<>>
        /\ Done => (result = <<>> /\ exit = 214)

\* C5's case: a run on zero events is over
C5_Witness ==
    /\ ZeroEvents
    /\ Done
    /\ provider.body = "list"
    /\ Len(netLog) = 1

\* C6: once a counter has reached 2 no document of its kind is requested or
\* uploaded any more; so once the three counters have reached 2 no later event
\* causes any request or upload: the loop is left at its next turn.
C6_NoFetchAtCap ==
    [][/\ transcript_count >= 2 =>
            /\ EntriesOf(netLog', "transcript") = EntriesOf(netLog, "transcript")
            /\ EntriesOf(uploadLog', "transcript") = EntriesOf(uploadLog, "transcript")
       /\ report_count >= 2 =>
            /\ EntriesOf(netLog', "report") = EntriesOf(netLog, "report")
            /\ EntriesOf(uploadLog', "report") = EntriesOf(uploadLog, "report")
       /\ slides_count >= 2 =>
            /\ EntriesOf(netLog', "slides") = EntriesOf(netLog, "slides")
            /\ EntriesOf(uploadLog', "slides") = EntriesOf(uploadLog, "slides")
       /\ (transcript_count >= 2 /\ report_count >= 2 /\ slides_count >= 2) =>
            (netLog' = netLog /\ uploadLog' = uploadLog /\ (pc = "head" => pc' = "return"))]_vars

\* C6's case: the third event was visited with the transcripts at 2 and the
\* reports below 2: its report was requested, its transcript was not
C6_Witness ==
    /\ Returned214
    /\ Len(events) = 3
    /\ idx = 4
    /\ transcript_count = 2
    /\ \E k \in 1..Len(netLog) : netLog[k].kind = "report" /\ netLog[k].pos = events[3].pos
    /\ \A k \in 1..Len(netLog) :
          netLog[k].kind = "transcript" => netLog[k].pos # events[3].pos
    /\ events[3].turl # "none"

\* C7: get_company_events does not raise; a status other than 200 and a
\* transport exception give {}; a 200 answer with a list of events gives the
\* events in the provider's order.
C7_EventsNeverRaises ==
    (apiKey /\ pc # "start") =>
        /\ ~company_data.raised
        /\ (provider.exc \/ provider.status # HTTP_OK) => (company_data.empty /\ exit = 96)
        /\ GotEventList => ~company_data.empty
        /\ (GotEventList /\ pc = "sort") => events = provider.events

\* C7's case: the events were returned in the provider's order, which is not
\* the order of the dates
C7_Witness ==
    /\ pc = "sort"
    /\ Len(events) = 3
    /\ events = provider.events
    /\ events[1].date = "day" /\ events[2].date = "day"
    /\ events[1].day < events[2].day

\* event d has no transcript text to find: the answer to its transcript
\* request is no 200, or its JSON has an empty text or none, or its body is empty
NoTextToFind(d) ==
    d.tAns \in {"500", "exc", "empty_ttext", "no_text", "empty_text", "blank"}

\* C8: when no strategy finds a non-empty transcript text (a fetch that is no
\* 200, JSON with an empty or missing text, an empty body) process_transcript
\* returns '' and the run uploads nothing and appends no transcript record
\* for the event.
C8_NoTextNoRecord ==
    \A i \in 1..Len(events) :
        NoTextToFind(events[i]) =>
            /\ \A k \in 1..Len(uploadLog) :
                  ~(uploadLog[k].kind = "transcript" /\ uploadLog[k].pos = events[i].pos)
            /\ ~HasRecord(processed_files, "transcript", events[i])

\* C9: process_transcript returns a str, possibly empty, and raises nothing,
\* for every transcript URL, every shape of the transcripts argument (empty,
\* keys missing, null) and every outcome of the requests.
C9_TranscriptNeverRaises ==
    ret.done => (~ret.raised /\ IsStr(ret.text))

\* C9's case: the call with None for the transcripts argument has returned ''
C9_Witness ==
    /\ ret.done
    /\ call.transcripts = NoneMeta
    /\ call.transcript_url = AppUrl(1)
    /\ ret.text = <<>>

\* C10: for an event that has a transcript URL and whose metadata has no
\* embedded raw-transcript URL but a finished-live-transcript URL, the run
\* requests that finished-live-transcript URL.
C10_FinishedLiveFetched ==
    (pc = "report" /\ transcript_count < 2) =>
        LET d == events[idx]
        IN  (d.turl # "none" /\ d.meta \in {"nested_live", "event_live"}) =>
                \E k \in 1..Len(netLog) :
                    /\ netLog[k].kind = "transcript"
                    /\ netLog[k].pos = d.pos
                    /\ netLog[k].url = LiveUrl(d.pos)

\* the call went to the raw transcript URL of the transcripts argument, which
\* answered 200
RawFetched200 ==
    /\ ret.done
    /\ call.transcripts # NoneMeta
    /\ call.transcripts.transcriptUrl = RawUrl(1)
    /\ ~call.resp.exc
    /\ call.resp.status = HTTP_OK

\* C11: after a raw transcript URL answered 200 the strategies are tried in
\* order (JSON transcript.text, JSON top-level text, plain-text body) and the
\* first non-empty text is returned formatted: a JSON body whose
\* transcript.text is empty and whose top-level text is non-empty gives the
\* formatted top-level text, and a body that does not parse as JSON gives the
\* formatted plain-text body.
C11_FallbackInOrder ==
    RawFetched200 =>
        LET body == call.resp.body
        IN  /\ (/\ call.resp.ctype = "json"
                /\ body.kind = "obj"
                /\ body.tKind = "dict"
                /\ body.tText = <<>>
                /\ IsStr(body.text)
                /\ body.text # <<>>)
                   => ret.text = format_transcript_text(body.text).text
            /\ (body.kind = "invalid" /\ body.raw # <<>>)
                   => ret.text = format_transcript_text(body.raw).text

\* the segments of a text: the literal backslash-n pairs turned into line
\* feeds, whitespace collapsed, split on periods, trimmed, the empty ones left out
SegmentsOf(text) ==
    StripNonEmpty(SplitOn(CollapseWhitespace(ReplaceEscapedNewlines(text)), CH_DOT, <<>>))

\* every segment followed by a period, the segments joined by a blank line
RECURSIVE PeriodAfterEach(_)
PeriodAfterEach(segments) ==
    IF segments = <<>> THEN <<>>
    ELSE Head(segments) \o <<CH_DOT>>
             \o (IF Len(segments) > 1 THEN <<CH_NL, CH_NL>> ELSE <<>>)
             \o PeriodAfterEach(Tail(segments))

\* C12: for every input text format_transcript_text returns the non-empty
\* trimmed segments of the whitespace-collapsed text split on periods, each
\* followed by a period and joined by a blank line; "Hello world. This is a
\* test." gives "Hello world." and "This is a test." with a blank line between.
C12_SegmentsWithPeriods ==
    ret.done =>
        /\ ~ret.raised
        /\ ret.text = PeriodAfterEach(SegmentsOf(call.text))
        /\ (call.text = ExampleText => ret.text = ExampleFormatted)

\* C12 (amended): for every input text that has at least one non-empty
\* trimmed segment format_transcript_text returns those segments, each
\* followed by a period and joined by a blank line; "Hello world. This is a
\* test." gives "Hello world." and "This is a test." with a blank line between.
C12_SentencesWithPeriods ==
    (ret.done /\ SegmentsOf(call.text) # <<>>) =>
        /\ ~ret.raised
        /\ ret.text = PeriodAfterEach(SegmentsOf(call.text))
        /\ (call.text = ExampleText => ret.text = ExampleFormatted)

\* C12's case: the example text has been formatted into its two sentences
C12_Witness ==
    /\ ret.done
    /\ call.text = ExampleText
    /\ Len(SegmentsOf(call.text)) = 2
    /\ ret.text = ExampleFormatted

\* C13: a rendering failure drops the document: whenever create_pdf gives
\* empty bytes for a transcript, nothing is uploaded for it, no transcript
\* record is appended and transcript_count is not incremented.
C13_EmptyPdfDropped ==
    /\ \A k \in 1..Len(uploadLog) :
          ~(uploadLog[k].kind = "transcript" /\ uploadLog[k].empty)
    /\ \A i \in 1..Len(events) :
          events[i].render = "build_fail" =>
              ~HasRecord(processed_files, "transcript", events[i])
    /\ transcript_count = Len(OfKind(processed_files, "transcript"))

\* C14: create_pdf returns empty bytes on any rendering failure and never
\* raises: a failure building the title block, adding a body paragraph or
\* building the document, and an empty transcript text, all give empty bytes.
C14_EmptyBytesNeverRaises ==
    ret.done =>
        /\ ~ret.raised
        /\ (call.render # "ok" \/ call.transcript_text = <<>>) => ret.empty

\* the text a piece of markup stands for: the entities turned back into
\* their characters
RECURSIVE Unescape(_)
Unescape(s) ==
    IF s = <<>> THEN <<>>
    ELSE IF StartsWith(s, AmpEntity)
         THEN <<CH_AMP>> \o Unescape(SubSeq(s, Len(AmpEntity) + 1, Len(s)))
    ELSE IF StartsWith(s, LtEntity)
         THEN <<CH_LT>> \o Unescape(SubSeq(s, Len(LtEntity) + 1, Len(s)))
    ELSE IF StartsWith(s, GtEntity)
         THEN <<CH_GT>> \o Unescape(SubSeq(s, Len(GtEntity) + 1, Len(s)))
    ELSE <<Head(s)>> \o Unescape(Tail(s))

\* inserted is original with '&', '<' and '>' escaped: it has no '<' and no
\* '>', every '&' in it starts an entity, and it stands for original
EscapedFrom(original, inserted) ==
    /\ \A i \in 1..Len(inserted) :
          /\ inserted[i] \notin {CH_LT, CH_GT}
          /\ inserted[i] = CH_AMP =>
                \E ent \in {AmpEntity, LtEntity, GtEntity} :
                    StartsWith(SubSeq(inserted, i, Len(inserted)), ent)
    /\ Unescape(inserted) = original

\* the title block and the body were put together
MarkupBuilt ==
    /\ ret.done
    /\ ~ret.raised
    /\ call.transcript_text # <<>>

\* C15: every provider-supplied string create_pdf inserts into the markup
\* (company name, event title, event date, every paragraph of the transcript)
\* has '&', '<' and '>' escaped before it is inserted.
C15_AllInsertedEscaped ==
    MarkupBuilt =>
        /\ EscapedFrom(call.company_name, ret.header.company_name)
        /\ EscapedFrom(call.event_title, ret.header.event_title)
        /\ EscapedFrom(FormatValue(call.event_date), ret.header.event_date)
        /\ call.render # "para_fail" =>
              LET paragraphs == StripNonEmpty(SplitBlankLines(call.transcript_text, <<>>))
              IN  /\ Len(ret.story) = Len(paragraphs)
                  /\ \A k \in 1..Len(paragraphs) : EscapedFrom(paragraphs[k], ret.story[k])

\* a download was made with the store and the local path in order
DownloadedInOrder ==
    /\ ret.done
    /\ call.op = "download"
    /\ handler.client
    /\ call.local_path.dir
    /\ call.env.client = "ok"
    /\ call.env.http = "ok"

\* C17: round trip over an in-memory store: after upload_file succeeded for
\* some bytes under a key, the bytes are what the store holds under the key,
\* the last upload to the key replacing the earlier ones, and download_file
\* for the key succeeds and gives exactly these bytes, whatever the bytes
\* are, empty bytes included.
C17_RoundTrip ==
    /\ (ret.done /\ call.op = "upload" /\ ret.success) =>
           bucket[call.filename] = call.file_data
    /\ (DownloadedInOrder /\ bucket[call.filename] # NoObject) =>
           /\ ret.success
           /\ ret.written = bucket[call.filename]

\* the direct HTTP upload of the call was answered with 200 or 201
DirectAnswered200Or201 ==
    /\ "http" \in {ret.attempts[k] : k \in 1..Len(ret.attempts)}
    /\ ~call.env.http.exc
    /\ call.env.http.status \in {200, 201}

\* C18: upload_file reports its outcome as a boolean and never raises: True
\* exactly when the upload through the storage client succeeds or, after it
\* failed, the direct HTTP upload is answered 200 or 201; False when there is
\* no client and when both attempts fail; the direct HTTP upload is attempted
\* only after the client upload failed.
C18_UploadOutcome ==
    (ret.done /\ call.op = "upload") =>
        /\ ~ret.raised
        /\ ret.success \in BOOLEAN
        /\ ret.success <=>
              \/ (ret.attempts # <<>> /\ call.env.client = "ok")
              \/ (call.env.client = "raises" /\ DirectAnswered200Or201)
        /\ ~handler.client => (~ret.success /\ ret.attempts = <<>>)
        /\ \A k \in 1..Len(ret.attempts) :
              ret.attempts[k] = "http" =>
                  (k = 2 /\ ret.attempts[1] = "client" /\ call.env.client = "raises")

\* C18's case: the client upload failed and the direct HTTP upload, answered
\* 201, made upload_file return True
C18_Witness ==
    /\ ret.done
    /\ call.op = "upload"
    /\ call.env.client = "raises"
    /\ ret.attempts = <<"client", "http">>
    /\ call.env.http.status = 201
    /\ ret.success
    /\ bucket[call.filename] = call.file_data

\* a query was submitted in the run of the script just made
QuerySubmitted ==
    /\ ret.done
    /\ call.op = "main"
    /\ call.query # ""

\* the last message of the chat history
LastMessage ==
    session_state.chat_history[Len(session_state.chat_history)]

\* C19: when none of the manifested documents is downloaded and read
\* successfully, the query step answers with an explicit message and
\* generate_content is not called; the model is only ever called with at
\* least one document part.
C19_NoDocumentNoGenerate ==
    /\ (ret.done /\ call.op = "main") =>
           \A k \in 1..Len(ret.generate) : ret.generate[k] >= 1
    /\ (QuerySubmitted /\ session_state.processed_files # <<>> /\ ret.read = 0) =>
           /\ ret.generate = <<>>
           /\ LastMessage.role = "assistant"
           /\ LastMessage.content.text \in
                  {"Error downloading files from S3.",
                   "No files were successfully processed for Gemini",
                   "Error initializing Gemini client"}

\* C19's case: the documents were downloaded, none of them could be read, and
\* query_gemini answered with its message without calling the model
C19_Witness ==
    /\ QuerySubmitted
    /\ Len(session_state.processed_files) = 2
    /\ ret.read = 0
    /\ ret.generate = <<>>
    /\ LastMessage.content.text = "No files were successfully processed for Gemini"

ScriptRan ==
    /\ ret.done
    /\ call.op = "main"
    /\ call.loaded

\* C21: when the user selects a different company, processed_files and
\* chat_history are emptied and documents_fetched is reset to False, nothing
\* is deleted from storage, and the next question calls
\* process_company_documents for the newly selected company; selecting the
\* same company again changes none of these.
C21_CompanyChangeResets ==
    [][LET selected == call'.selected_company
           changed == selected # "" /\ session_state.current_company # selected
           company == IF changed THEN selected ELSE session_state.current_company
           asked == call'.query # ""
       IN  (call'.op = "main" /\ call'.loaded) =>
             /\ bucket' = bucket
             /\ (changed /\ ~asked) =>
                   /\ session_state'.current_company = selected
                   /\ session_state'.processed_files = <<>>
                   /\ session_state'.chat_history = <<>>
                   /\ session_state'.documents_fetched = FALSE
             /\ (changed /\ asked) =>
                   /\ session_state'.current_company = selected
                   /\ ret'.base = 0
                   /\ Len(session_state'.chat_history) = 2
             /\ (asked /\ company # "" /\ (changed \/ ~session_state.documents_fetched)) =>
                   ret'.acquire = QuartrIdOf(company)
             /\ (~changed /\ ~asked) => session_state' = session_state
             /\ (~changed /\ asked) =>
                   /\ session_state'.current_company = session_state.current_company
                   /\ ret'.base = Len(session_state.chat_history)
                   /\ session_state.documents_fetched =>
                         /\ session_state'.processed_files = session_state.processed_files
                         /\ session_state'.documents_fetched
                         /\ ret'.acquire = ""]_vars

\* C21's case: with two records of Acme held, Beta was selected and the
\* session was reset
C21_Witness ==
    /\ ScriptRan
    /\ ret.before = [current_company |-> "Acme", files |-> 2]
    /\ call.selected_company = "Beta"
    /\ call.query = ""
    /\ session_state.current_company = "Beta"
    /\ session_state.processed_files = <<>>
    /\ session_state.chat_history = <<>>
    /\ ~session_state.documents_fetched

\* C21's second case: the question after the change called
\* process_company_documents for Beta
C21_NextQuestionAcquires ==
    /\ ScriptRan
    /\ ret.before = [current_company |-> "Beta", files |-> 0]
    /\ call.query # ""
    /\ ret.acquire = QuartrIdOf("Beta")
    /\ session_state.processed_files = ManifestOf(QuartrIdOf("Beta"), 2)

\* C22: every network call of a run of process_company_documents (the
\* events list, the transcript, report and slides fetches) is made on the
\* one ClientSession while it is open, and the session is closed on every
\* way out: no events (96), the normal return (214) and an exception caught
\* by the outermost handler (217).
C22_SessionOpenThenClosed ==
    /\ \A k \in 1..Len(netLog) : netLog[k].open
    /\ pc = "start" => (session = "none" /\ netLog = <<>>)
    /\ pc \notin {"start", "done"} => session = "open"
    /\ pc = "done" => (session = "closed" /\ exit \in {96, 214, 217})

\* C22's case: events, transcript, report and slides were fetched and the
\* run returned with the session closed
C22_Witness ==
    /\ pc = "done"
    /\ exit = 214
    /\ session = "closed"
    /\ {netLog[k].kind : k \in 1..Len(netLog)} = {"events", "transcript", "report", "slides"}

\* C22's other ways out: no events, and the outermost handler
C22_ClosedWithoutEvents ==
    pc = "done" /\ exit = 96 /\ session = "closed" /\ Len(netLog) = 1

C22_ClosedAfterException ==
    pc = "done" /\ exit = 217 /\ session = "closed" /\ Len(netLog) = 1

\* C23: without the provider's API key process_company_documents returns an
\* empty manifest without raising (the error of QuartrAPI's constructor is
\* caught by the outermost handler, and no request or upload is made);
\* without the language model's API key query_gemini returns an error
\* message without calling the model.
C23_MissingKeysDegrade ==
    /\ (~apiKey /\ pc = "done") =>
          /\ result = <<>>
          /\ exit = 217
          /\ netLog = <<>>
          /\ uploadLog = <<>>
    /\ (ret.done /\ call.env.gemini = "no_key") =>
          /\ ret.text = "Error initializing Gemini client"
          /\ ret.generate = <<>>

\* C23's case: with a transcript manifested, downloaded and readable, and no
\* key of the model, query_gemini answered with its error message
C23_Witness ==
    /\ ret.done
    /\ call.env.gemini = "no_key"
    /\ call.env.readable # {}
    /\ result # <<>>
    /\ ret.text = "Error initializing Gemini client"
    /\ ret.generate = <<>>

\* C23's other case: without the provider's key the run ended with []
C23_NoProviderKey ==
    /\ ~apiKey
    /\ pc = "done"
    /\ result = <<>>
    /\ exit = 217

\* the day of the event the provider listed at place pos
DayOfPos(pos) ==
    provider.events[pos].day

\* C24: among events of equal eventDate the descending sort keeps the order
\* in which the provider returned them, so that of two such events the one
\* listed first is considered first for every kind of document.
C24_TiesKeepProviderOrder ==
    /\ pc \notin {"start", "sort"} =>
          \A i, j \in 1..Len(events) :
             (i < j /\ SortKey(events[i]) = SortKey(events[j])) =>
                 events[i].pos < events[j].pos
    /\ \A k, l \in 1..Len(netLog) :
          (/\ k < l
           /\ netLog[k].kind # "events"
           /\ netLog[k].kind = netLog[l].kind
           /\ DayOfPos(netLog[k].pos) = DayOfPos(netLog[l].pos)) =>
              netLog[k].pos < netLog[l].pos

\* C24's case: the events have the same date, and the documents of the first
\* two the provider listed were fetched, in that order
C24_Witness ==
    /\ pc = "done"
    /\ exit = 214
    /\ \A i \in 1..Len(provider.events) : DayOfPos(i) = 1
    /\ [k \in 1..Len(events) |-> events[k].pos] = [k \in 1..NumTieEvents |-> k]
    /\ [k \in 2..Len(netLog) |-> netLog[k].pos] = [k \in 2..Len(netLog) |-> IF k <= 4 THEN 1 ELSE 2]
    /\ Len(netLog) = 7

\* the company component of a storage key: what stands before its first '/'
CompanyComponent(filename) ==
    SplitOn(filename, 47, <<>>)[1]

\* C25: the company component of every storage key produced in a run is the
\* display name of the company being acquired (in the form create_filename
\* gives a name), so that the runs of two companies never produce the same
\* key for documents of the same date and kind.
C25_KeyNamesCompany ==
    \A k \in 1..Len(processed_files) :
       CompanyComponent(processed_files[k].filename)
          = CompanyComponent(create_filename(DisplayName, processed_files[k].event_date,
                                             processed_files[k].event_title,
                                             KindStr(processed_files[k].type),
                                             TranscriptPdfName).filename)

\* C26: within one run no two records of the manifest have the same storage
\* key: two events of the same date that differ in title get different keys
\* for documents of the same kind, so that the second upload does not
\* overwrite the object the first record points to.
C26_KeysDistinctInRun ==
    \A k, l \in 1..Len(processed_files) :
       k # l => processed_files[k].filename # processed_files[l].filename

\* C27: the sources appended to an answer are documents that were downloaded
\* and submitted to the model: no more sources are listed than documents
\* were read into the request, and none is listed when the call of the model
\* failed.
C27_SourcesWereSubmitted ==
    QuerySubmitted =>
       /\ LastMessage.content.sources <= ret.read
       /\ LastMessage.content.text # "response.text" => LastMessage.content.sources = 0

\* C28: for every record of the manifest the bucket and the key that
\* download_files_from_s3 parses out of s3_url are the bucket and the
\* filename under which the orchestrator uploaded the document, for keys
\* that contain '/' as well.
C28_LocatorRoundTrip ==
    \A k \in 1..Len(processed_files) :
       BucketAndKey(processed_files[k].s3_url)
          = [raised |-> FALSE, bucket |-> S3_BUCKET_NAME, key |-> processed_files[k].filename]

\* C28's case: a transcript, a report and the slides were uploaded under keys
\* with two '/' each, and download_files_from_s3 parsed and got all three
C28_Witness ==
    /\ ret.done
    /\ Len(result) = 3
    /\ result = processed_files
    /\ \A k \in 1..3 : Len(SplitOn(result[k].filename, 47, <<>>)) = 3
    /\ call.file_paths = <<1, 2, 3>>

\* C29: over any sequence of selections and questions, processed_files is
\* empty whenever documents_fetched is False, and a processed_files that is
\* not empty is what the run of process_company_documents for the company
\* now selected returned, never the records of a company selected before.
C29_ManifestOfCurrentCompany ==
    /\ ~session_state.documents_fetched => session_state.processed_files = <<>>
    /\ session_state.processed_files # <<>> =>
          /\ ~session_state.company_data.isNone
          /\ session_state.company_data.name = session_state.current_company
          /\ session_state.company_data.quartr_id = QuartrIdOf(session_state.current_company)
          /\ \E n \in 1..2 :
                session_state.processed_files
                   = ManifestOf(QuartrIdOf(session_state.current_company), n)

\* C29's case: records of Acme were held when Beta was selected, and after
\* the question that followed the records of Beta are held
C29_Witness ==
    /\ QuerySubmitted
    /\ ret.before = [current_company |-> "Acme", files |-> 2]
    /\ session_state.current_company = "Beta"
    /\ ret.acquire = QuartrIdOf("Beta")
    /\ session_state.processed_files = ManifestOf(QuartrIdOf("Beta"), 1)
    /\ session_state.processed_files # ManifestOf(QuartrIdOf("Acme"), 1)

\* C30: between two changes of company process_company_documents is called
\* at most once, on the first question: documents_fetched is set True even
\* when the run returned an empty manifest, so that every later question for
\* the same company is answered with the no-documents message, without
\* another run and without calling the model.
C30_OneAcquisitionPerCompany ==
    [][LET selected == call'.selected_company
           changed == selected # "" /\ session_state.current_company # selected
           asked == call'.query # ""
           reply == session_state'.chat_history[Len(session_state'.chat_history)]
       IN  (call'.op = "main" /\ call'.loaded /\ asked) =>
             /\ ret'.acquire # "" =>
                   /\ changed \/ ~session_state.documents_fetched
                   /\ session_state'.documents_fetched
             /\ (~changed /\ session_state.documents_fetched) =>
                   /\ ret'.acquire = ""
                   /\ session_state'.documents_fetched
                   /\ session_state'.processed_files = session_state.processed_files
                   /\ session_state.processed_files = <<>> =>
                         /\ reply = Message("assistant",
                                            "No documents are available for this company.", 0)
                         /\ ret'.generate = <<>>]_vars

\* C30's case: the first question for Acme got an empty manifest, and the
\* second was answered with the no-documents message and no other run
C30_Witness ==
    /\ QuerySubmitted
    /\ ret.before = [current_company |-> "Acme", files |-> 0]
    /\ call.selected_company = "Acme"
    /\ ret.acquire = ""
    /\ ret.generate = <<>>
    /\ Len(session_state.chat_history) = 4
    /\ session_state.chat_history[2].content.text = "No documents found for this company."
    /\ LastMessage.content.text = "No documents are available for this company."
    /\ session_state.documents_fetched
    /\ session_state.processed_files = <<>>

====
